---- MODULE Spec2Model ----
(***************************************************************************)
(* Polaris Insights Telegram bot (src/index.js, v2.0.0 part, lines 1-906). *)
(*                                                                         *)
(* One run of the bot fetches the newest insights, reverses them to        *)
(* chronological order, drops the ones younger than the minimum age and    *)
(* sends every remaining one that is neither in the processed-IDs cache    *)
(* nor older than the timestamp cache.  Two JSON files carry the state     *)
(* from one run to the next.                                               *)
(*                                                                         *)
(* Time is counted in slots of SlotMinutes minutes; a publishedAt string   *)
(* is represented by its slot and DateMs gives the milliseconds that       *)
(* new Date(...).getTime() yields for it.                                  *)
(***************************************************************************)
EXTENDS Integers, Sequences, FiniteSets, TLC

(* ------------------------------------------------------------------ *)
(* Configuration (all of it comes from environment variables)          *)
(* ------------------------------------------------------------------ *)

\* config.Cache.MAX_PROCESSED_IDS = parseInt(env.MAX_PROCESSED_IDS) || 200;
\* the model runs the configuration MAX_PROCESSED_IDS=2.
MAX_PROCESSED_IDS == 2

\* config.Insights.LIMIT = parseInt(env.INSIGHTS_LIMIT) || 7; the model runs
\* INSIGHTS_LIMIT=3, so a fetched feed holds at most 3 items.
LIMIT == 3

\* config.Insights.MINIMUM_AGE_MINUTES = parseInt(env.MINIMUM_AGE_MINUTES) || 10
MINIMUM_AGE_MINUTES == 10

(* ------------------------------------------------------------------ *)
(* Bounds of the model                                                 *)
(* ------------------------------------------------------------------ *)

\* number of runs of the bot in one behaviour
MaxRuns == 2

\* the wall clock runs from FirstClock up to MaxClock slots
MaxClock == 5

\* number of direct calls of the tracker functions in one behaviour (SpecTracker)
MaxCalls == 7

\* one slot of the model's clock, in minutes: half the minimum age, so that
\* an insight can be younger than, exactly at and older than the threshold
SlotMinutes == MINIMUM_AGE_MINUTES \div 2

\* identifiers of the insights the feed can return
Ids == {"a", "b", "c"}

\* slots at which an insight can have been published
PubSlots == {1, 2, 3}

\* the first run starts one slot after the last publication
FirstClock == Cardinality(PubSlots) + 1

\* identifiers used by the direct calls of the tracker functions, in the
\* order in which the calls introduce them
TrackerOrder == <<"a", "b", "c", "d", "e", "f", "g">>

TrackerIds == {TrackerOrder[i] : i \in 1..Len(TrackerOrder)}

(* ------------------------------------------------------------------ *)
(* Sequences, as the JavaScript array methods compute them             *)
(* ------------------------------------------------------------------ *)

\* Array.prototype.reverse
ReverseIdentity(s) == s

Reverse(s) == [i \in 1..Len(s) |-> s[Len(s) + 1 - i]]

\* Array.prototype.slice(-n): the last n elements; slice(-0) is slice(0)
SliceLastKeepOldest(s, n) ==
    IF n = 0 \/ Len(s) <= n THEN s ELSE SubSeq(s, 1, n)

SliceLast(s, n) ==
    IF n = 0 \/ Len(s) <= n THEN s ELSE SubSeq(s, Len(s) - n + 1, Len(s))

\* the set of elements of a sequence
Range(s) == {s[i] : i \in 1..Len(s)}

\* all sequences of distinct elements of S of length at most n
RECURSIVE DistinctSeqs(_, _)
DistinctSeqs(S, n) ==
    IF n = 0 THEN {<<>>}
    ELSE LET shorter == DistinctSeqs(S, n - 1)
             longer == {Append(s, x) : s \in shorter, x \in S}
         IN  shorter \cup
                 {t \in longer : \A i, j \in 1..Len(t) : i # j => t[i] # t[j]}

(* ------------------------------------------------------------------ *)
(* Dates                                                               *)
(* ------------------------------------------------------------------ *)

\* new Date(publishedAt).getTime() for the publishedAt string of slot s
DateMs(s) == s * SlotMinutes * 60 * 1000

(* ------------------------------------------------------------------ *)
(* The two cache files                                                 *)
(* ------------------------------------------------------------------ *)

\* a file that does not exist
AbsentFile == [kind |-> "absent"]

\* metadata = {} : no background keys
NoMetadata == [backgroundType |-> "", backgroundValue |-> ""]

\* the metadata values the direct calls pass
Metadatas == {NoMetadata,
              [backgroundType |-> "image", backgroundValue |-> "url"]}

\* files that hold no document: a file that cannot be read (readFileSync
\* throws), one that is not JSON (JSON.parse throws), and JSON that is not
\* an object: null, a number or a string, an array
UnparsableFiles == {[kind |-> "unreadable"], [kind |-> "malformed"]}

NonObjectFiles == {[kind |-> "null"], [kind |-> "scalar"], [kind |-> "array"]}

BrokenFiles == {AbsentFile} \cup UnparsableFiles \cup NonObjectFiles

\* the empty object {}
EmptyObject == [kind |-> "empty"]

\* a readCache without its try block: the error of readFileSync or
\* JSON.parse reaches the caller
ReadCacheThrowing(file) ==
    IF file.kind = "absent" THEN EmptyObject
    ELSE IF file \in UnparsableFiles THEN [kind |-> "thrown"]
    ELSE file

\* readCache: {} when the file does not exist or when reading or parsing it
\* throws; else the parsed value as it is, an object or not
ReadCache(file) ==
    IF file.kind = "absent" THEN EmptyObject
    ELSE IF file \in UnparsableFiles THEN EmptyObject
    ELSE file

\* a readProcessedIds that never finds a list in the file
ReadProcessedIdsLost(file) == <<>>

\* readProcessedIds: data.processedIds when it is an array, else []; [] as
\* well when data is null, in which case data.processedIds throws and the
\* catch block answers
ReadProcessedIds(file) ==
    LET data == ReadCache(file)
    IN  IF data.kind \in {"thrown", "null"} THEN <<>>
        ELSE IF data.kind = "processed" THEN data.processedIds
        ELSE <<>>

\* writeProcessedIds: bound the list, then write the document
WriteProcessedIds(processedIds, t) ==
    LET boundedIds == SliceLast(processedIds, MAX_PROCESSED_IDS)
    IN  [kind         |-> "processed",
         processedIds |-> boundedIds,
         lastUpdated  |-> t,
         totalCount   |-> Len(boundedIds)]

\* the predicate of .some / .findIndex:
\* typeof item === 'string' ? item === insightId : item.id === insightId
MatchesStringOnly(item, insightId) == item.fmt = "string" /\ item.id = insightId

\* a predicate that knows the object entries only
MatchesObjectOnly(item, insightId) == item.fmt = "object" /\ item.id = insightId

Matches(item, insightId) ==
    IF item.fmt = "string" THEN item.id = insightId ELSE item.id = insightId

\* a check that finds nothing in the file
IsInsightProcessedNever(file, insightId) == FALSE

\* isInsightProcessed
IsInsightProcessed(file, insightId) ==
    LET processedInsights == ReadProcessedIds(file)
    IN  \E i \in 1..Len(processedInsights) : Matches(processedInsights[i], insightId)

\* Array.prototype.findIndex with the predicate above: 0-based index, or -1
FindIndex(processedInsights, insightId) ==
    LET hits == {i \in 1..Len(processedInsights) :
                     Matches(processedInsights[i], insightId)}
    IN  IF hits = {} THEN -1
        ELSE (CHOOSE i \in hits : \A j \in hits : i <= j) - 1

\* addProcessedInsight: the file after the call made at time t
AddProcessedInsightAlways(file, insightId, metadata, t) ==
    WriteProcessedIds(
        Append(ReadProcessedIds(file),
               [fmt |-> "object", id |-> insightId, processedAt |-> t,
                backgroundType  |-> metadata.backgroundType,
                backgroundValue |-> metadata.backgroundValue]), t)

AddProcessedInsightRewrite(file, insightId, metadata, t) ==
    LET processedInsights == ReadProcessedIds(file)
    IN  IF FindIndex(processedInsights, insightId) = -1
        THEN AddProcessedInsightAlways(file, insightId, metadata, t)
        ELSE WriteProcessedIds(processedInsights, t)

AddProcessedInsight(file, insightId, metadata, t) ==
    LET processedInsights == ReadProcessedIds(file)
        existingIndex == FindIndex(processedInsights, insightId)
        insightData == [fmt |-> "object", id |-> insightId, processedAt |-> t,
                        backgroundType  |-> metadata.backgroundType,
                        backgroundValue |-> metadata.backgroundValue]
    IN  IF existingIndex = -1
        THEN WriteProcessedIds(Append(processedInsights, insightData), t)
        ELSE file

(* ------------------------------------------------------------------ *)
(* The insights                                                        *)
(* ------------------------------------------------------------------ *)

\* backgroundType / backgroundValue of each insight of the model:
\* "a" has an image background, "b" has none, "c" has a colour background
Background(id) ==
    IF id = "a" THEN [backgroundType |-> "image", backgroundValue |-> "url"]
    ELSE IF id = "c" THEN [backgroundType |-> "color", backgroundValue |-> "red-100"]
    ELSE NoMetadata

\* backgroundMetadata of the commit: both keys, or none
BackgroundMetadata(id) ==
    IF Background(id).backgroundType # "" /\ Background(id).backgroundValue # ""
    THEN Background(id)
    ELSE NoMetadata

\* the fields of an insight that getImageForInsight reads: "a" and "b" have
\* no visualization, "c" has a graphics visualization to draw on its colour
Insight(id) ==
    [backgroundType     |-> Background(id).backgroundType,
     backgroundValue    |-> Background(id).backgroundValue,
     visualizationType  |-> IF id = "c" THEN "graphics" ELSE "",
     visualizationValue |-> IF id = "c" THEN "url" ELSE ""]

\* isValidUrl: new URL(string) does not throw; of the strings of the model
\* only "url" parses, a colour name and a bare word do not
IsValidUrl(string) == string = "url"

NoImage == [kind |-> "null", value |-> ""]

\* a getImageForInsight that hands on every backgroundValue there is
GetImageForInsightUnchecked(insight, composed) ==
    IF insight.backgroundValue # ""
    THEN [kind |-> "url", value |-> insight.backgroundValue]
    ELSE NoImage

\* getImageForInsight: a URL, the buffer of the drawn image, or null; composed
\* tells whether createColoredBackgroundImage succeeds (its error, like the
\* two errors thrown for the visualization, is caught and gives null)
GetImageForInsight(insight, composed) ==
    LET background == IF insight.backgroundValue # "" /\ IsValidUrl(insight.backgroundValue)
                      THEN [kind |-> "url", value |-> insight.backgroundValue]
                      ELSE NoImage
    IN  IF insight.backgroundType = "image"
        THEN IF insight.visualizationType = "graphics" /\ insight.visualizationValue # ""
             THEN IF IsValidUrl(insight.visualizationValue)
                  THEN [kind |-> "url", value |-> insight.visualizationValue]
                  ELSE background
             ELSE background
        ELSE IF insight.backgroundType = "color"
        THEN IF insight.visualizationValue = "" THEN NoImage
             ELSE IF ~IsValidUrl(insight.visualizationValue) THEN NoImage
             ELSE IF composed THEN [kind |-> "buffer", value |-> insight.backgroundValue]
             ELSE NoImage
        ELSE background

\* the first representation sendMessage tries: a photo when getImageForInsight
\* yields a URL or a buffer, else the text message
RepresentationOf(imageData) == IF imageData.kind = "null" THEN "text" ELSE "photo"

FirstRepresentation(id, composed) ==
    RepresentationOf(GetImageForInsight(Insight(id), composed))

\* how a call of the Telegram API can end: the envelope says ok, the request
\* fails, the status is not 2xx, the envelope says ok = false
Responses == {"ok", "network", "non2xx", "notok"}

\* a check of the HTTP status alone
DeliverySucceededHttpOnly(r) == r \in {"ok", "notok"}

\* sendTextMessage and sendPhotoMessage return the envelope only when the
\* status is 2xx and data.ok holds, and throw otherwise
DeliverySucceeded(r) == r = "ok"

\* sendMessage only catches what the delivery call throws
FallbackAfterSendOnly(r) ==
    IF r \in {"photo", "upload", "text"} THEN "fallbackText" ELSE "none"

\* a sendMessage without a catch block
FallbackNever(r) == "none"

\* sendMessage's catch block: whatever its try block was doing (drawing the
\* image, sending the photo, sending the text), it sends the text message;
\* an error of that message is not caught (none)
Fallback(r) ==
    IF r \in {"compose", "photo", "upload", "text"} THEN "fallbackText" ELSE "none"

\* how the fetch of the insights can end
FetchStatuses == {"ok", "network", "non2xx"}

\* a fetch that only fails when the request itself does
FetchFailsNetworkOnly(status) == status = "network"

\* fetch throws, or response.ok is false and the function throws
FetchFails(status) == status # "ok"

\* process.exit(1) in main's catch
ExitFailure == 1

\* a write that empties the file when it fails
WriteCacheTruncating(old, data, ok) == IF ok THEN data ELSE AbsentFile

\* writeCache: the file holds data afterwards, or, when writeFileSync
\* throws, what it held before; the error is logged and not raised
WriteCache(old, data, ok) == IF ok THEN data ELSE old

\* the feeds the API can return: at most LIMIT insights, no identifier twice
Feeds == DistinctSeqs(Ids, LIMIT)

(* ------------------------------------------------------------------ *)
(* Eligibility                                                         *)
(* ------------------------------------------------------------------ *)

\* minAgeMs = MINIMUM_AGE_MINUTES * 60 * 1000
MinAgeMs == MINIMUM_AGE_MINUTES * 60 * 1000

\* ageMs >= minAgeMs, with now and publishedAt given by their slots
IsOldEnoughStrict(nowSlot, pubSlot) == DateMs(nowSlot) - DateMs(pubSlot) > MinAgeMs

IsOldEnough(nowSlot, pubSlot) == DateMs(nowSlot) - DateMs(pubSlot) >= MinAgeMs

\* a program without the timestamp check
IsNeverOlderThanCached(file, pubSlot) == FALSE

\* a timestamp check that lets pass what was published at the cached instant
IsBeforeCached(file, pubSlot) ==
    LET cacheData == ReadCache(file)
    IN  /\ cacheData.kind = "checkpoint"
        /\ DateMs(pubSlot) < DateMs(cacheData.publishedAt)

\* the check of the timestamp-only program: insightDate <= cachedDate
IsOlderOrEqualToCached(file, pubSlot) ==
    LET cacheData == ReadCache(file)
    IN  /\ cacheData.kind = "checkpoint"
        /\ DateMs(pubSlot) <= DateMs(cacheData.publishedAt)

\* a secondary check that also skips what was published at the cached instant
IsNotNewerThanCached(file, pubSlot) ==
    LET cacheData == ReadCache(file)
    IN  /\ cacheData.kind = "checkpoint"
        /\ ~(DateMs(pubSlot) > DateMs(cacheData.publishedAt))

\* the secondary check: a timestamp cache with a publishedAt exists and
\* insightDate < cachedDate
IsOlderThanCached(file, pubSlot) ==
    LET cacheData == ReadCache(file)
    IN  /\ cacheData.kind = "checkpoint"
        /\ DateMs(pubSlot) < DateMs(cacheData.publishedAt)

\* a checkpoint that stores the time of sending as the publication time
LatestInsightSentAt(id, publishedAt, t) ==
    [kind |-> "checkpoint", id |-> id, publishedAt |-> t, sentAt |-> t]

\* the record written to the timestamp cache after a delivery:
\* { id, publishedAt, sentAt }
LatestInsight(id, publishedAt, t) ==
    [kind |-> "checkpoint", id |-> id, publishedAt |-> publishedAt, sentAt |-> t]

\* a delay condition that counts the insight just sent as still to come
HasMoreInsightsOffByOne(count, total) == count + 1 < total

\* hasMoreInsights = processedCount < eligibleInsights.length
HasMoreInsights(count, total) == count < total

\* the loop's catch block: log, then continue with the next insight
AbortAfterFailure(i, n) == n + 1

\* a loop that passes over the insight after a failed one
\* a catch block that leaves the loop on the same insight
NextIndexStaying(i, n) == i

NextIndexSkipping(i, n) == i + 2

NextIndexAfterFailure(i, n) == i + 1

(* ------------------------------------------------------------------ *)
(* State                                                               *)
(* ------------------------------------------------------------------ *)

VARIABLES
    pubAt,          \* publishedAt (slot) of every insight; fixed upstream
    clock,          \* wall clock, in slots
    runs,           \* number of completed runs
    processedDoc,   \* processed_insights.cache.json
    cacheDoc,       \* latest_insight.cache.json
    pc,             \* position of the run: idle, loop, send, delay, done
    feed,           \* insights of the API response, newest first
    batch,          \* eligibleInsights
    idx,            \* position of the for loop in eligibleInsights
    processedCount, \* processedCount
    now,            \* now, taken once before the filter
    rep,            \* the call sendMessage is waiting for: photo, text (in
                    \* its try block), fallbackText (in its catch block)
    attempts,       \* history: insights handed to sendMessage in this run
    outcome,        \* history: what this run did with each insight
    delivered,      \* history: successful deliveries per insight (capped at 2)
    everFailed,     \* history: insights whose delivery failed in some run
    startDocs,      \* history: the two files as the run found them
    prev,           \* history: feed and batch of the previous run, if it
                    \*          delivered every item of its batch
    calls,          \* number of direct tracker calls made (SpecTracker)
    call,           \* the last direct tracker call and its result
    initIds,        \* identifiers in the processed set before the first call
    added,          \* history: identifiers appended by the calls, in order
    sends,          \* history: the delivery calls the running sendMessage
                    \*          has made so far, with their responses
    response,       \* response of the last delivery call, until the loop
                    \* moves on
    slept,          \* history: the run has slept since its last sendMessage
    fetchStatus,    \* what the fetch of this run gave: none, ok, network, non2xx
    exitCode,       \* exit code of the last process that ended
    wrote,          \* history: which writes of the last commit reached the disk
    useImageOverlay,\* config.Telegram.USE_IMAGE_OVERLAY (overlay program)
    config,         \* which settings of config.Telegram the .env file gives
    argInsight,     \* the insight of a direct call of sendMessage (SpecMessage)
    other,          \* a second process on the same two files (SpecOverlap):
                    \* its position and loop variables, and history
    loaded,         \* a run that loads the two files once (SpecReload): its
                    \* in-memory copies, the files it writes, and history
    files,          \* the four cache files by name (SpecTestMode)
    chatOfCall      \* chat_id of the delivery call in flight (SpecTestMode)

vars == <<pubAt, clock, runs, processedDoc, cacheDoc, pc, feed, batch, idx,
          processedCount, now, rep, attempts, outcome, delivered, everFailed,
          startDocs, prev, calls, call, initIds, added, sends, response,
          slept, fetchStatus, exitCode, wrote, useImageOverlay, config,
          argInsight, other, loaded, files, chatOfCall>>

runVars == <<pubAt, runs, cacheDoc, pc, feed, batch, idx, processedCount, now,
             rep, attempts, outcome, delivered, everFailed, startDocs, prev,
             sends, response, slept, fetchStatus, exitCode, wrote,
             useImageOverlay, config, argInsight, other, loaded, files,
             chatOfCall>>

trackerVars == <<calls, call, initIds, added>>

\* the environment of the process: no step of a run changes it
envVars == <<useImageOverlay, config, argInsight, other, loaded, files,
            chatOfCall>>

NoPrev == [complete |-> FALSE, feed |-> <<>>, batch |-> <<>>]

NoCall == [op |-> "none", id |-> "", metadata |-> NoMetadata, result |-> FALSE,
           present |-> FALSE, again |-> FALSE]

NoWrite == [processed |-> TRUE, cache |-> TRUE, any |-> FALSE]

\* an exit code that reports the delivery failures the loop has caught
ExitFailureAfterFailedDelivery == IF everFailed = {} THEN 0 ELSE ExitFailure

\* a process that ends by itself exits with 0: the catch blocks of the loop
\* and of the writes keep their errors from main
ExitSuccess == 0

\* an insight without any of the fields getImageForInsight reads
NoInsight == [backgroundType |-> "", backgroundValue |-> "",
              visualizationType |-> "", visualizationValue |-> ""]

\* the second process before it starts. History: delivered lists what it
\* has delivered; sentCommitted holds the insights it handed to sendMessage
\* although the first process had committed them; committedUnseen holds the
\* insights it committed before the first process got to their checks
NoOther == [pc |-> "idle", batch |-> <<>>, idx |-> 1, processedCount |-> 0,
            rep |-> "none", delivered |-> <<>>, sentCommitted |-> {},
            committedUnseen |-> {}]

\* the load-once run before the first process starts: nothing in memory,
\* no file written, nothing delivered by either run
NotLoaded == [processedIds |-> <<>>, cacheData |-> EmptyObject,
              processedDoc |-> AbsentFile, cacheDoc |-> AbsentFile,
              deliveries |-> <<>>, reread |-> <<>>]

\* the names config.Cache gives the two files in production and in test mode
FileNames == {"latest_insight.cache.json", "processed_insights.cache.json",
              "test_latest_insight.cache.json",
              "test_processed_insights.cache.json"}

\* none of the files exists
NoFiles == [name \in FileNames |-> AbsentFile]

\* a complete .env file of a production deployment
ProductionConfig == [token |-> TRUE, testMode |-> FALSE, chatId |-> TRUE,
                     testChatId |-> FALSE]

\* every combination of given and missing settings
Configs == [token : BOOLEAN, testMode : BOOLEAN, chatId : BOOLEAN,
            testChatId : BOOLEAN]

\* the check of main without the call of getChatId
ConfigValidTokenOnly(cfg) == cfg.token

\* the validation of main: the token, then getChatId for the active mode
ConfigValid(cfg) ==
    /\ cfg.token
    /\ IF cfg.testMode THEN cfg.testChatId ELSE cfg.chatId

\* no run has started, no tracker call has been made
Idle ==
    /\ clock = FirstClock
    /\ runs = 0
    /\ pc = "idle"
    /\ feed = <<>>
    /\ batch = <<>>
    /\ idx = 1
    /\ processedCount = 0
    /\ now = FirstClock
    /\ rep = "none"
    /\ attempts = <<>>
    /\ outcome = [i \in Ids |-> "absent"]
    /\ delivered = [i \in Ids |-> 0]
    /\ everFailed = {}
    /\ prev = NoPrev
    /\ calls = 0
    /\ call = NoCall
    /\ added = <<>>
    /\ sends = <<>>
    /\ response = "none"
    /\ slept = TRUE
    /\ fetchStatus = "none"
    /\ exitCode = 0
    /\ wrote = NoWrite

Init ==
    /\ pubAt \in [Ids -> PubSlots]
    /\ processedDoc = AbsentFile
    /\ cacheDoc = AbsentFile
    /\ startDocs = [processed |-> AbsentFile, cache |-> AbsentFile]
    /\ initIds = <<>>
    /\ useImageOverlay = FALSE
    /\ config = ProductionConfig
    /\ argInsight = NoInsight
    /\ other = NoOther
    /\ loaded = NotLoaded
    /\ files = NoFiles
    /\ chatOfCall = "none"
    /\ Idle

(* ------------------------------------------------------------------ *)
(* One run: processNewPublishedInsights                                *)
(* ------------------------------------------------------------------ *)

\* time passes between two runs and while a run sleeps
Tick ==
    /\ pc \in {"idle", "delay"}
    /\ clock < MaxClock
    /\ clock' = clock + 1
    /\ UNCHANGED <<processedDoc, runVars, trackerVars>>

\* the fetch ends with the given status and, when it succeeds, the feed f:
\* a failed fetch throws, main catches and exits with code 1; else reverse
\* the feed, take now, filter by age
FetchResponse(status, f) ==
    /\ pc = "idle"
    /\ runs < MaxRuns
    /\ ConfigValid(config)
    /\ fetchStatus' = status
    /\ startDocs' = [processed |-> processedDoc, cache |-> cacheDoc]
    /\ attempts' = <<>>
    /\ processedCount' = 0
    /\ idx' = 1
    /\ rep' = "none"
    /\ sends' = <<>>
    /\ response' = "none"
    /\ slept' = TRUE
    /\ wrote' = NoWrite
    /\ IF FetchFails(status)
       THEN /\ pc' = "done"
            /\ exitCode' = ExitFailure
            /\ feed' = <<>>
            /\ batch' = <<>>
            /\ outcome' = [i \in Ids |-> "absent"]
            /\ UNCHANGED now
       ELSE IF Len(f) = 0
       THEN /\ pc' = "done"
            /\ exitCode' = ExitSuccess
            /\ feed' = f
            /\ batch' = <<>>
            /\ outcome' = [i \in Ids |-> "absent"]
            /\ UNCHANGED now
       ELSE LET chronologicalInsights == Reverse(f)
                Keep(i) == IsOldEnough(clock, pubAt[i])
            IN  /\ now' = clock
                /\ feed' = f
                /\ batch' = SelectSeq(chronologicalInsights, Keep)
                /\ outcome' = [i \in Ids |->
                                  IF i \notin Range(f) THEN "absent"
                                  ELSE IF Keep(i) THEN "pending"
                                  ELSE "tooRecent"]
                /\ pc' = "loop"
                /\ UNCHANGED exitCode
    /\ UNCHANGED <<pubAt, clock, runs, processedDoc, cacheDoc, delivered,
                   everFailed, prev>>
    /\ UNCHANGED <<trackerVars, envVars>>

\* the fetch returns the feed f
Fetch(f) == FetchResponse("ok", f)

\* the head of one loop iteration: the two checks, then the call of
\* sendMessage; composed tells whether the coloured image can be drawn
Examine(composed) ==
    /\ pc = "loop"
    /\ idx <= Len(batch)
    /\ LET insight == batch[idx]
       IN  IF IsInsightProcessed(processedDoc, insight)
           THEN /\ outcome' = [outcome EXCEPT ![insight] = "processed"]
                /\ idx' = idx + 1
                /\ UNCHANGED <<pc, rep, attempts>>
           ELSE IF IsOlderThanCached(cacheDoc, pubAt[insight])
           THEN /\ outcome' = [outcome EXCEPT ![insight] = "older"]
                /\ idx' = idx + 1
                /\ UNCHANGED <<pc, rep, attempts>>
           ELSE /\ pc' = "send"
                /\ rep' = FirstRepresentation(insight, composed)
                /\ attempts' = Append(attempts, insight)
                /\ UNCHANGED <<outcome, idx>>
    /\ response' = "none"
    /\ wrote' = NoWrite
    /\ UNCHANGED <<pubAt, clock, runs, processedDoc, cacheDoc, feed, batch,
                   processedCount, now, delivered, everFailed, startDocs, prev,
                   sends, slept, fetchStatus, exitCode>>
    /\ UNCHANGED <<trackerVars, envVars>>

\* the delivery call of the current representation ends with response r;
\* after a delivery, wp and wc tell whether the write of the processed-set
\* file and the write of the timestamp cache reach the disk
Send(r, wp, wc) ==
    /\ pc = "send"
    /\ response' = r
    /\ LET insight == batch[idx]
       IN  IF DeliverySucceeded(r)
           THEN \* commit: both caches, the counter, then the rate limit
                /\ processedDoc' = WriteCache(processedDoc,
                                       AddProcessedInsight(processedDoc, insight,
                                           BackgroundMetadata(insight), clock), wp)
                /\ cacheDoc' = WriteCache(cacheDoc,
                                   LatestInsight(insight, pubAt[insight], clock), wc)
                /\ wrote' = [processed |-> wp, cache |-> wc, any |-> TRUE]
                /\ processedCount' = processedCount + 1
                /\ delivered' = [delivered EXCEPT
                                    ![insight] = IF @ < 2 THEN @ + 1 ELSE @]
                /\ outcome' = [outcome EXCEPT ![insight] = "delivered"]
                /\ rep' = "none"
                /\ sends' = <<>>
                /\ slept' = FALSE
                /\ IF HasMoreInsights(processedCount + 1, Len(batch))
                   THEN pc' = "delay" /\ UNCHANGED idx
                   ELSE pc' = "loop" /\ idx' = idx + 1
                /\ UNCHANGED everFailed
           ELSE IF Fallback(rep) # "none"
           THEN \* sendMessage catches the error and sends the text message
                /\ rep' = Fallback(rep)
                /\ sends' = Append(sends, [rep |-> rep, response |-> r])
                /\ UNCHANGED <<processedDoc, cacheDoc, processedCount, delivered,
                               outcome, pc, idx, everFailed, slept, wrote>>
           ELSE \* the text message of the catch block failed: sendMessage
                \* throws, the loop's catch logs, continue
                /\ outcome' = [outcome EXCEPT ![insight] = "failed"]
                /\ everFailed' = everFailed \cup {insight}
                /\ rep' = "none"
                /\ sends' = <<>>
                /\ slept' = FALSE
                /\ pc' = "loop"
                /\ idx' = NextIndexAfterFailure(idx, Len(batch))
                /\ UNCHANGED <<processedDoc, cacheDoc, processedCount, delivered,
                               wrote>>
    /\ UNCHANGED <<pubAt, clock, runs, feed, batch, now, attempts, startDocs,
                   prev, fetchStatus, exitCode>>
    /\ UNCHANGED <<trackerVars, envVars>>

\* the one-second sleep is over
Delay ==
    /\ pc = "delay"
    /\ pc' = "loop"
    /\ idx' = idx + 1
    /\ slept' = TRUE
    /\ response' = "none"
    /\ wrote' = NoWrite
    /\ UNCHANGED <<pubAt, clock, runs, processedDoc, cacheDoc, feed, batch,
                   processedCount, now, rep, attempts, outcome, delivered,
                   everFailed, startDocs, prev, sends, fetchStatus, exitCode>>
    /\ UNCHANGED <<trackerVars, envVars>>

\* the loop is over: main logs and the process ends
LoopEnd ==
    /\ pc = "loop"
    /\ idx > Len(batch)
    /\ pc' = "done"
    /\ exitCode' = ExitSuccess
    /\ response' = "none"
    /\ wrote' = NoWrite
    /\ UNCHANGED <<pubAt, clock, runs, processedDoc, cacheDoc, feed, batch, idx,
                   processedCount, now, rep, attempts, outcome, delivered,
                   everFailed, startDocs, prev, sends, slept, fetchStatus>>
    /\ UNCHANGED <<trackerVars, envVars>>

\* the scheduler starts the next process; nothing but the files is kept
NextRun ==
    /\ pc = "done"
    /\ pc' = "idle"
    /\ runs' = runs + 1
    /\ prev' = IF Len(batch) > 0 /\ \A k \in 1..Len(batch) : outcome[batch[k]] = "delivered"
               THEN [complete |-> TRUE, feed |-> feed, batch |-> batch]
               ELSE NoPrev
    /\ feed' = <<>>
    /\ batch' = <<>>
    /\ idx' = 1
    /\ processedCount' = 0
    /\ attempts' = <<>>
    /\ outcome' = [i \in Ids |-> "absent"]
    /\ slept' = TRUE
    /\ fetchStatus' = "none"
    /\ UNCHANGED <<pubAt, clock, processedDoc, cacheDoc, now, rep, delivered,
                   everFailed, startDocs, sends, response, exitCode, wrote>>
    /\ UNCHANGED <<trackerVars, envVars>>

Next ==
    \/ Tick
    \/ \E f \in Feeds : Fetch(f)
    \/ \E composed \in BOOLEAN : Examine(composed)
    \/ \E r \in Responses : Send(r, TRUE, TRUE)
    \/ Delay
    \/ LoopEnd
    \/ NextRun

Spec == Init /\ [][Next]_vars

(* ------------------------------------------------------------------ *)
(* The overlay program (second program of index.js): the timestamp     *)
(* cache alone decides what is new, and sendMessage draws the headline *)
(* on the background image when USE_IMAGE_OVERLAY is set               *)
(* ------------------------------------------------------------------ *)

\* what sendMessage of the overlay program does first: the text message when
\* the overlay is off or the insight has no backgroundValue, else
\* createImageWithTextOverlay
OverlayFirstStep(id, overlay) ==
    IF ~overlay THEN "text"
    ELSE IF Background(id).backgroundValue = "" THEN "text"
    ELSE "compose"

\* createImageWithTextOverlay fetches backgroundValue: it can only succeed
\* when that is the URL of an image
CanCompose(id) == Background(id).backgroundType = "image"

\* publication slots of the overlay program's insights: there is no age
\* filter, so two instants (equal or different) show every case
OverlayPubSlots == {1, 2}

OverlayInit ==
    /\ pubAt \in [Ids -> OverlayPubSlots]
    /\ processedDoc = AbsentFile
    /\ cacheDoc = AbsentFile
    /\ startDocs = [processed |-> AbsentFile, cache |-> AbsentFile]
    /\ initIds = <<>>
    /\ useImageOverlay \in BOOLEAN
    /\ config = ProductionConfig
    /\ argInsight = NoInsight
    /\ other = NoOther
    /\ loaded = NotLoaded
    /\ files = NoFiles
    /\ chatOfCall = "none"
    /\ Idle

\* the fetch returns the feed f: reverse it; there is no age filter
OverlayFetch(f) ==
    /\ pc = "idle"
    /\ runs < MaxRuns
    /\ fetchStatus' = "ok"
    /\ startDocs' = [processed |-> processedDoc, cache |-> cacheDoc]
    /\ attempts' = <<>>
    /\ processedCount' = 0
    /\ idx' = 1
    /\ rep' = "none"
    /\ sends' = <<>>
    /\ response' = "none"
    /\ slept' = TRUE
    /\ wrote' = NoWrite
    /\ feed' = f
    /\ batch' = Reverse(f)
    /\ outcome' = [i \in Ids |-> IF i \in Range(f) THEN "pending" ELSE "absent"]
    /\ IF Len(f) = 0
       THEN pc' = "done" /\ exitCode' = ExitSuccess
       ELSE pc' = "loop" /\ UNCHANGED exitCode
    /\ UNCHANGED <<pubAt, clock, runs, processedDoc, cacheDoc, now, delivered,
                   everFailed, prev>>
    /\ UNCHANGED <<trackerVars, envVars>>

\* the head of one loop iteration: the timestamp check, then sendMessage
OverlayExamine ==
    /\ pc = "loop"
    /\ idx <= Len(batch)
    /\ LET insight == batch[idx]
       IN  IF IsOlderOrEqualToCached(cacheDoc, pubAt[insight])
           THEN /\ outcome' = [outcome EXCEPT ![insight] = "older"]
                /\ idx' = idx + 1
                /\ UNCHANGED <<pc, rep, attempts>>
           ELSE /\ pc' = "send"
                /\ rep' = OverlayFirstStep(insight, useImageOverlay)
                /\ attempts' = Append(attempts, insight)
                /\ UNCHANGED <<outcome, idx>>
    /\ response' = "none"
    /\ wrote' = NoWrite
    /\ UNCHANGED <<pubAt, clock, runs, processedDoc, cacheDoc, feed, batch,
                   processedCount, now, delivered, everFailed, startDocs, prev,
                   sends, slept, fetchStatus, exitCode>>
    /\ UNCHANGED <<trackerVars, envVars>>

\* createImageWithTextOverlay returns the image (drawn) or throws
OverlayCompose(drawn) ==
    /\ pc = "send"
    /\ rep = "compose"
    /\ drawn => CanCompose(batch[idx])
    /\ sends' = Append(sends, [rep |-> rep,
                               response |-> IF drawn THEN "ok" ELSE "error"])
    /\ IF drawn
       THEN /\ rep' = "upload"
            /\ UNCHANGED <<pc, idx, outcome, everFailed, slept>>
       ELSE IF Fallback(rep) # "none"
       THEN /\ rep' = Fallback(rep)
            /\ UNCHANGED <<pc, idx, outcome, everFailed, slept>>
       ELSE \* nothing catches the error: the loop's catch logs, continue
            /\ outcome' = [outcome EXCEPT ![batch[idx]] = "failed"]
            /\ everFailed' = everFailed \cup {batch[idx]}
            /\ rep' = "none"
            /\ slept' = FALSE
            /\ pc' = "loop"
            /\ idx' = NextIndexAfterFailure(idx, Len(batch))
    /\ UNCHANGED <<pubAt, clock, runs, processedDoc, cacheDoc, feed, batch,
                   processedCount, now, attempts, delivered, startDocs, prev,
                   response, fetchStatus, exitCode, wrote>>
    /\ UNCHANGED <<trackerVars, envVars>>

\* the delivery call of the current representation ends with response r
OverlaySend(r) ==
    /\ pc = "send"
    /\ rep # "compose"
    /\ response' = r
    /\ LET insight == batch[idx]
       IN  IF DeliverySucceeded(r)
           THEN \* commit: the timestamp cache, the counter, then the delay
                /\ cacheDoc' = WriteCache(cacheDoc,
                                   LatestInsight(insight, pubAt[insight], clock), TRUE)
                /\ wrote' = [processed |-> TRUE, cache |-> TRUE, any |-> TRUE]
                /\ processedCount' = processedCount + 1
                /\ delivered' = [delivered EXCEPT
                                    ![insight] = IF @ < 2 THEN @ + 1 ELSE @]
                /\ outcome' = [outcome EXCEPT ![insight] = "delivered"]
                /\ rep' = "none"
                /\ sends' = <<>>
                /\ slept' = FALSE
                /\ IF HasMoreInsights(processedCount + 1, Len(batch))
                   THEN pc' = "delay" /\ UNCHANGED idx
                   ELSE pc' = "loop" /\ idx' = idx + 1
                /\ UNCHANGED everFailed
           ELSE IF Fallback(rep) # "none"
           THEN /\ rep' = Fallback(rep)
                /\ sends' = Append(sends, [rep |-> rep, response |-> r])
                /\ UNCHANGED <<cacheDoc, processedCount, delivered, outcome, pc,
                               idx, everFailed, slept, wrote>>
           ELSE /\ outcome' = [outcome EXCEPT ![insight] = "failed"]
                /\ everFailed' = everFailed \cup {insight}
                /\ rep' = "none"
                /\ sends' = <<>>
                /\ slept' = FALSE
                /\ pc' = "loop"
                /\ idx' = NextIndexAfterFailure(idx, Len(batch))
                /\ UNCHANGED <<cacheDoc, processedCount, delivered, wrote>>
    /\ UNCHANGED <<pubAt, clock, runs, processedDoc, feed, batch, now, attempts,
                   startDocs, prev, fetchStatus, exitCode>>
    /\ UNCHANGED <<trackerVars, envVars>>

OverlayNext ==
    \/ Tick
    \/ \E f \in Feeds : OverlayFetch(f)
    \/ OverlayExamine
    \/ \E drawn \in BOOLEAN : OverlayCompose(drawn)
    \/ \E r \in Responses : OverlaySend(r)
    \/ Delay
    \/ LoopEnd
    \/ NextRun

SpecOverlay == OverlayInit /\ [][OverlayNext]_vars

(* ------------------------------------------------------------------ *)
(* Runs that find files holding no document (SpecLoad)                 *)
(* ------------------------------------------------------------------ *)

\* publishedAt of the insights in these runs: two at one instant, one later
LoadPubAts == {[i \in Ids |-> IF i = "c" THEN 2 ELSE 1]}

\* the first run finds each of the two files missing, unreadable, not JSON,
\* or JSON that is not an object
LoadInit ==
    /\ pubAt \in LoadPubAts
    /\ processedDoc \in BrokenFiles
    /\ cacheDoc \in BrokenFiles
    /\ startDocs = [processed |-> processedDoc, cache |-> cacheDoc]
    /\ initIds = <<>>
    /\ useImageOverlay = FALSE
    /\ config = ProductionConfig
    /\ argInsight = NoInsight
    /\ other = NoOther
    /\ loaded = NotLoaded
    /\ files = NoFiles
    /\ chatOfCall = "none"
    /\ Idle

SpecLoad == LoadInit /\ [][Next]_vars

(* ------------------------------------------------------------------ *)
(* Runs in which the fetch and the writes of the files can fail        *)
(* (SpecFaults)                                                        *)
(* ------------------------------------------------------------------ *)

\* publishedAt of the insights in these runs
FaultPubAts == {[i \in Ids |-> IF i = "c" THEN 2 ELSE 1]}

\* the delivery calls of these runs succeed or fail in one way
FaultResponses == {"ok", "network"}

FaultsInit ==
    /\ pubAt \in FaultPubAts
    /\ processedDoc = AbsentFile
    /\ cacheDoc = AbsentFile
    /\ startDocs = [processed |-> AbsentFile, cache |-> AbsentFile]
    /\ initIds = <<>>
    /\ useImageOverlay = FALSE
    /\ config = ProductionConfig
    /\ argInsight = NoInsight
    /\ other = NoOther
    /\ loaded = NotLoaded
    /\ files = NoFiles
    /\ chatOfCall = "none"
    /\ Idle

\* the fetch throws, or the API answers with a status that is not 2xx
FetchError(status) ==
    /\ status # "ok"
    /\ FetchResponse(status, <<>>)

\* these runs happen within one slot of the clock
FaultsNext ==
    \/ \E f \in Feeds : Fetch(f)
    \/ \E status \in FetchStatuses : FetchError(status)
    \/ Examine(TRUE)
    \/ \E r \in FaultResponses, wp, wc \in BOOLEAN : Send(r, wp, wc)
    \/ Delay
    \/ LoopEnd
    \/ NextRun

SpecFaults == FaultsInit /\ [][FaultsNext]_vars

(* ------------------------------------------------------------------ *)
(* Runs under every configuration of the token, the mode and the two   *)
(* chat ids (SpecConfig)                                               *)
(* ------------------------------------------------------------------ *)

ConfigInit ==
    /\ pubAt \in FaultPubAts
    /\ processedDoc = AbsentFile
    /\ cacheDoc = AbsentFile
    /\ startDocs = [processed |-> AbsentFile, cache |-> AbsentFile]
    /\ initIds = <<>>
    /\ useImageOverlay = FALSE
    /\ config \in Configs
    /\ argInsight = NoInsight
    /\ other = NoOther
    /\ loaded = NotLoaded
    /\ files = NoFiles
    /\ chatOfCall = "none"
    /\ Idle

\* between two runs the operator edits the .env file
EditEnv(cfg) ==
    /\ pc = "idle"
    /\ runs < MaxRuns
    /\ cfg # config
    /\ config' = cfg
    /\ UNCHANGED <<clock, processedDoc, pubAt, runs, cacheDoc, pc, feed, batch,
                   idx, processedCount, now, rep, attempts, outcome, delivered,
                   everFailed, startDocs, prev, sends, response, slept,
                   fetchStatus, exitCode, wrote, useImageOverlay, argInsight,
                   other, loaded, files, chatOfCall, trackerVars>>

\* main throws on the missing token or on the error of getChatId; its catch
\* logs and exits with code 1 before readProcessedIds and before the fetch
ConfigurationError ==
    /\ pc = "idle"
    /\ runs < MaxRuns
    /\ ~ConfigValid(config)
    /\ pc' = "done"
    /\ exitCode' = ExitFailure
    /\ startDocs' = [processed |-> processedDoc, cache |-> cacheDoc]
    /\ UNCHANGED <<pubAt, clock, runs, processedDoc, cacheDoc, feed, batch, idx,
                   processedCount, now, rep, attempts, outcome, delivered,
                   everFailed, prev, sends, response, slept, fetchStatus, wrote>>
    /\ UNCHANGED <<trackerVars, envVars>>

\* these runs happen within one slot of the clock
ConfigNext ==
    \/ \E cfg \in Configs : EditEnv(cfg)
    \/ ConfigurationError
    \/ \E f \in Feeds : Fetch(f)
    \/ Examine(TRUE)
    \/ \E r \in FaultResponses : Send(r, TRUE, TRUE)
    \/ Delay
    \/ LoopEnd
    \/ NextRun

SpecConfig == ConfigInit /\ [][ConfigNext]_vars

(* ------------------------------------------------------------------ *)
(* sendMessage on its own: direct calls with every kind of insight     *)
(* (SpecMessage)                                                       *)
(* ------------------------------------------------------------------ *)

\* the insights sendMessage can be called with: each field is absent, a
\* valid URL, or a string that is not a URL; other background types are
\* handled like no type
ArgInsights ==
    [backgroundType     : {"", "image", "color"},
     backgroundValue    : {"", "url", "red-100"},
     visualizationType  : {"", "graphics"},
     visualizationValue : {"", "url", "chart"}]

MessageInit == Init

\* sendMessage is called: getImageForInsight, then the first delivery call
SendMessage(insight, composed) ==
    /\ pc = "idle"
    /\ argInsight' = insight
    /\ pc' = "send"
    /\ rep' = RepresentationOf(GetImageForInsight(insight, composed))
    /\ sends' = <<>>
    /\ response' = "none"
    /\ UNCHANGED <<pubAt, clock, runs, processedDoc, cacheDoc, feed, batch, idx,
                   processedCount, now, attempts, outcome, delivered, everFailed,
                   startDocs, prev, slept, fetchStatus, exitCode, wrote,
                   useImageOverlay, config, other, loaded, files, chatOfCall,
                   trackerVars>>

\* the delivery call in flight ends with response r: sendMessage returns the
\* envelope, or its catch block sends the text message, or it throws
MessageResponse(r) ==
    /\ pc = "send"
    /\ response' = r
    /\ sends' = Append(sends, [rep |-> rep, response |-> r])
    /\ IF ~DeliverySucceeded(r) /\ Fallback(rep) # "none"
       THEN rep' = Fallback(rep) /\ UNCHANGED pc
       ELSE rep' = "none" /\ pc' = "idle"
    /\ UNCHANGED <<pubAt, clock, runs, processedDoc, cacheDoc, feed, batch, idx,
                   processedCount, now, attempts, outcome, delivered, everFailed,
                   startDocs, prev, slept, fetchStatus, exitCode, wrote,
                   trackerVars, envVars>>

MessageNext ==
    \/ \E insight \in ArgInsights, composed \in BOOLEAN : SendMessage(insight, composed)
    \/ \E r \in Responses : MessageResponse(r)

SpecMessage == MessageInit /\ [][MessageNext]_vars

(* ------------------------------------------------------------------ *)
(* Two processes started by overlapping schedules on the same two      *)
(* files (SpecOverlap)                                                 *)
(* ------------------------------------------------------------------ *)

\* feeds of at most MAX_PROCESSED_IDS insights: no run of these evicts an
\* identifier from the processed set
OverlapFeeds == DistinctSeqs({"a", "b"}, MAX_PROCESSED_IDS)

OverlapInit ==
    /\ pubAt \in FaultPubAts
    /\ processedDoc = AbsentFile
    /\ cacheDoc = AbsentFile
    /\ startDocs = [processed |-> AbsentFile, cache |-> AbsentFile]
    /\ initIds = <<>>
    /\ useImageOverlay = FALSE
    /\ config = ProductionConfig
    /\ argInsight = NoInsight
    /\ other = NoOther
    /\ loaded = NotLoaded
    /\ files = NoFiles
    /\ chatOfCall = "none"
    /\ Idle

\* what a step of the second process leaves alone: the first process
otherUnchanged == <<pubAt, clock, runs, pc, feed, batch, idx, processedCount, now,
                    rep, attempts, outcome, everFailed, startDocs, prev, sends,
                    response, slept, fetchStatus, exitCode, wrote,
                    useImageOverlay, config, argInsight, loaded, files,
                    chatOfCall, trackerVars>>

\* the second process fetches the feed f: reverse, filter by age
OtherFetch(f) ==
    /\ other.pc = "idle"
    /\ LET Keep(i) == IsOldEnough(clock, pubAt[i])
       IN  other' = [other EXCEPT
                        !.pc = IF Len(f) = 0 THEN "done" ELSE "loop",
                        !.batch = SelectSeq(Reverse(f), Keep),
                        !.idx = 1,
                        !.processedCount = 0]
    /\ UNCHANGED <<processedDoc, cacheDoc, delivered, otherUnchanged>>

\* the head of one loop iteration of the second process
OtherExamine(composed) ==
    /\ other.pc = "loop"
    /\ other.idx <= Len(other.batch)
    /\ LET insight == other.batch[other.idx]
       IN  IF IsInsightProcessed(processedDoc, insight)
              \/ IsOlderThanCached(cacheDoc, pubAt[insight])
           THEN other' = [other EXCEPT !.idx = @ + 1]
           ELSE other' = [other EXCEPT
                             !.pc = "send",
                             !.rep = FirstRepresentation(insight, composed),
                             !.sentCommitted =
                                 IF outcome[insight] = "delivered"
                                 THEN @ \cup {insight} ELSE @]
    /\ UNCHANGED <<processedDoc, cacheDoc, delivered, otherUnchanged>>

\* the delivery call of the second process ends with response r
OtherSend(r) ==
    /\ other.pc = "send"
    /\ LET insight == other.batch[other.idx]
       IN  IF DeliverySucceeded(r)
           THEN /\ processedDoc' = WriteCache(processedDoc,
                                       AddProcessedInsight(processedDoc, insight,
                                           BackgroundMetadata(insight), clock), TRUE)
                /\ cacheDoc' = WriteCache(cacheDoc,
                                   LatestInsight(insight, pubAt[insight], clock), TRUE)
                /\ delivered' = [delivered EXCEPT
                                    ![insight] = IF @ < 2 THEN @ + 1 ELSE @]
                /\ other' = [other EXCEPT
                                 !.rep = "none",
                                 !.processedCount = @ + 1,
                                 !.delivered = Append(@, insight),
                                 !.committedUnseen =
                                     IF insight \in Range(attempts)
                                     THEN @ ELSE @ \cup {insight},
                                 !.pc = IF HasMoreInsights(other.processedCount + 1,
                                                           Len(other.batch))
                                        THEN "delay" ELSE "loop",
                                 !.idx = IF HasMoreInsights(other.processedCount + 1,
                                                            Len(other.batch))
                                         THEN @ ELSE @ + 1]
           ELSE IF Fallback(other.rep) # "none"
           THEN /\ other' = [other EXCEPT !.rep = Fallback(other.rep)]
                /\ UNCHANGED <<processedDoc, cacheDoc, delivered>>
           ELSE /\ other' = [other EXCEPT
                                 !.rep = "none",
                                 !.pc = "loop",
                                 !.idx = NextIndexAfterFailure(@, Len(other.batch))]
                /\ UNCHANGED <<processedDoc, cacheDoc, delivered>>
    /\ UNCHANGED otherUnchanged

\* the one-second sleep of the second process is over
OtherDelay ==
    /\ other.pc = "delay"
    /\ other' = [other EXCEPT !.pc = "loop", !.idx = @ + 1]
    /\ UNCHANGED <<processedDoc, cacheDoc, delivered, otherUnchanged>>

\* the loop of the second process is over
OtherLoopEnd ==
    /\ other.pc = "loop"
    /\ other.idx > Len(other.batch)
    /\ other' = [other EXCEPT !.pc = "done"]
    /\ UNCHANGED <<processedDoc, cacheDoc, delivered, otherUnchanged>>

\* the steps of the two processes interleave in every order
OverlapNext ==
    \/ \E f \in OverlapFeeds : Fetch(f)
    \/ Examine(TRUE)
    \/ \E r \in FaultResponses : Send(r, TRUE, TRUE)
    \/ Delay
    \/ LoopEnd
    \/ \E f \in OverlapFeeds : OtherFetch(f)
    \/ OtherExamine(TRUE)
    \/ \E r \in FaultResponses : OtherSend(r)
    \/ OtherDelay
    \/ OtherLoopEnd

SpecOverlap == OverlapInit /\ [][OverlapNext]_vars

(* ------------------------------------------------------------------ *)
(* The run next to a run that loads the two files once, keeps them in  *)
(* memory and writes them after every commit (SpecReload)              *)
(* ------------------------------------------------------------------ *)

\* the feeds of these runs: any sequence of at most LIMIT insights, an
\* identifier may come twice and the order of publication is free
ReloadFeeds == UNION {[1..n -> Ids] : n \in 0..LIMIT}

ReloadPubAts == {[i \in Ids |-> 1], [i \in Ids |-> IF i = "c" THEN 2 ELSE 1],
                 [i \in Ids |-> IF i = "a" THEN 2 ELSE 1]}

\* the check of isInsightProcessed on the list in memory
InMemoryProcessed(processedInsights, insightId) ==
    \E i \in 1..Len(processedInsights) : Matches(processedInsights[i], insightId)

\* the timestamp check on the checkpoint in memory
InMemoryOlder(cacheData, pubSlot) ==
    /\ cacheData.kind = "checkpoint"
    /\ DateMs(pubSlot) < DateMs(cacheData.publishedAt)

\* addProcessedInsight on the list in memory: the list that is written
InMemoryAdd(processedInsights, insightId, metadata, t) ==
    IF FindIndex(processedInsights, insightId) = -1
    THEN Append(processedInsights,
                [fmt |-> "object", id |-> insightId, processedAt |-> t,
                 backgroundType  |-> metadata.backgroundType,
                 backgroundValue |-> metadata.backgroundValue])
    ELSE processedInsights

ReloadInit ==
    /\ pubAt \in ReloadPubAts
    /\ processedDoc = AbsentFile
    /\ cacheDoc = AbsentFile
    /\ startDocs = [processed |-> AbsentFile, cache |-> AbsentFile]
    /\ initIds = <<>>
    /\ useImageOverlay = FALSE
    /\ config = ProductionConfig
    /\ argInsight = NoInsight
    /\ other = NoOther
    /\ loaded = NotLoaded
    /\ files = NoFiles
    /\ chatOfCall = "none"
    /\ Idle

\* what the steps of these runs leave alone
reloadUnchanged == <<clock, runs, now, rep, attempts, outcome, everFailed, startDocs,
                     prev, sends, response, slept, fetchStatus, exitCode, wrote,
                     useImageOverlay, config, argInsight, other, files,
                     chatOfCall, trackerVars>>

\* both runs fetch the feed f, reverse it and filter it by age; the
\* load-once run reads the two files into memory
ReloadFetch(f) ==
    /\ pc = "idle"
    /\ runs < MaxRuns
    /\ feed' = f
    /\ batch' = SelectSeq(Reverse(f), LAMBDA i : IsOldEnough(clock, pubAt[i]))
    /\ idx' = 1
    /\ processedCount' = 0
    /\ pc' = IF Len(f) = 0 THEN "done" ELSE "loop"
    /\ loaded' = [processedIds |-> ReadProcessedIds(processedDoc),
                  cacheData    |-> ReadCache(cacheDoc),
                  processedDoc |-> processedDoc,
                  cacheDoc     |-> cacheDoc,
                  deliveries   |-> <<>>,
                  reread       |-> <<>>]
    /\ UNCHANGED <<pubAt, processedDoc, cacheDoc, delivered, reloadUnchanged>>

\* one iteration of the loop in both runs, sendMessage ending with the
\* response r in the run that calls it: the run of the program checks the
\* files and commits to the files, the load-once run checks its copies,
\* changes them and writes them
ReloadIteration(r) ==
    /\ pc = "loop"
    /\ idx <= Len(batch)
    /\ LET insight == batch[idx]
           skips == \/ IsInsightProcessed(processedDoc, insight)
                    \/ IsOlderThanCached(cacheDoc, pubAt[insight])
           skipsLoaded == \/ InMemoryProcessed(loaded.processedIds, insight)
                          \/ InMemoryOlder(loaded.cacheData, pubAt[insight])
           written == WriteProcessedIds(
                          InMemoryAdd(loaded.processedIds, insight,
                                      BackgroundMetadata(insight), clock), clock)
       IN  /\ IF ~skips /\ DeliverySucceeded(r)
              THEN /\ processedDoc' = WriteCache(processedDoc,
                                          AddProcessedInsight(processedDoc, insight,
                                              BackgroundMetadata(insight), clock), TRUE)
                   /\ cacheDoc' = WriteCache(cacheDoc,
                                      LatestInsight(insight, pubAt[insight], clock), TRUE)
                   /\ processedCount' = processedCount + 1
                   /\ delivered' = [delivered EXCEPT
                                       ![insight] = IF @ < 2 THEN @ + 1 ELSE @]
              ELSE UNCHANGED <<processedDoc, cacheDoc, processedCount, delivered>>
           /\ loaded' =
                  [loaded EXCEPT
                      !.reread = IF ~skips /\ DeliverySucceeded(r)
                                 THEN Append(@, insight) ELSE @,
                      !.deliveries = IF ~skipsLoaded /\ DeliverySucceeded(r)
                                     THEN Append(@, insight) ELSE @,
                      !.processedIds = IF ~skipsLoaded /\ DeliverySucceeded(r)
                                       THEN written.processedIds ELSE @,
                      !.processedDoc = IF ~skipsLoaded /\ DeliverySucceeded(r)
                                       THEN written ELSE @,
                      !.cacheData = IF ~skipsLoaded /\ DeliverySucceeded(r)
                                    THEN LatestInsight(insight, pubAt[insight], clock)
                                    ELSE @,
                      !.cacheDoc = IF ~skipsLoaded /\ DeliverySucceeded(r)
                                   THEN LatestInsight(insight, pubAt[insight], clock)
                                   ELSE @]
    /\ idx' = idx + 1
    /\ UNCHANGED <<pubAt, pc, feed, batch, reloadUnchanged>>

\* the loop is over in both runs
ReloadEnd ==
    /\ pc = "loop"
    /\ idx > Len(batch)
    /\ pc' = "done"
    /\ UNCHANGED <<pubAt, processedDoc, cacheDoc, feed, batch, idx, processedCount,
                   delivered, loaded, reloadUnchanged>>

\* the scheduler starts the next pair of runs on the files of the program
ReloadNextRun ==
    /\ pc = "done"
    /\ pc' = "idle"
    /\ runs' = runs + 1
    /\ UNCHANGED <<pubAt, clock, processedDoc, cacheDoc, feed, batch, idx,
                   processedCount, now, rep, attempts, outcome, delivered,
                   everFailed, startDocs, prev, sends, response, slept,
                   fetchStatus, exitCode, wrote, trackerVars, envVars>>

ReloadNext ==
    \/ \E f \in ReloadFeeds : ReloadFetch(f)
    \/ \E r \in FaultResponses : ReloadIteration(r)
    \/ ReloadEnd
    \/ ReloadNextRun

SpecReload == ReloadInit /\ [][ReloadNext]_vars

(* ------------------------------------------------------------------ *)
(* Runs in production mode and in test mode on the four files          *)
(* (SpecTestMode)                                                      *)
(* ------------------------------------------------------------------ *)

\* config.Cache.FILENAME
CacheFilename(cfg) ==
    IF cfg.testMode THEN "test_latest_insight.cache.json"
    ELSE "latest_insight.cache.json"

\* a configuration that names the production file in either mode
ProcessedIdsFilenameOfProduction(cfg) == "processed_insights.cache.json"

\* config.Cache.PROCESSED_IDS_FILENAME
ProcessedIdsFilename(cfg) ==
    IF cfg.testMode THEN "test_processed_insights.cache.json"
    ELSE "processed_insights.cache.json"

\* getChatId: the value of TELEGRAM_TEST_CHAT_ID in test mode, else the value
\* of TELEGRAM_CHAT_ID, the two being different chats; it throws when the
\* one it needs is missing
GetChatId(cfg) ==
    IF cfg.testMode
    THEN IF ~cfg.testChatId THEN "thrown" ELSE "TELEGRAM_TEST_CHAT_ID"
    ELSE IF ~cfg.chatId THEN "thrown" ELSE "TELEGRAM_CHAT_ID"

\* .env files that give the token and both chat ids, in either mode
ModeConfigs == {cfg \in Configs : cfg.token /\ cfg.chatId /\ cfg.testChatId}

TestModeInit ==
    /\ pubAt \in FaultPubAts
    /\ processedDoc = AbsentFile
    /\ cacheDoc = AbsentFile
    /\ startDocs = [processed |-> AbsentFile, cache |-> AbsentFile]
    /\ initIds = <<>>
    /\ useImageOverlay = FALSE
    /\ config \in ModeConfigs
    /\ argInsight = NoInsight
    /\ other = NoOther
    /\ loaded = NotLoaded
    /\ files = NoFiles
    /\ chatOfCall = "none"
    /\ Idle

\* what the steps of a run on the named files leave alone
modeUnchanged == <<pubAt, clock, runs, processedDoc, cacheDoc, startDocs, prev,
                   useImageOverlay, config, argInsight, other, loaded,
                   trackerVars>>

\* main validates the configuration; the fetch returns the feed f
ModeFetch(f) ==
    /\ pc = "idle"
    /\ runs < MaxRuns
    /\ ConfigValid(config)
    /\ fetchStatus' = "ok"
    /\ attempts' = <<>>
    /\ processedCount' = 0
    /\ idx' = 1
    /\ rep' = "none"
    /\ sends' = <<>>
    /\ response' = "none"
    /\ slept' = TRUE
    /\ wrote' = NoWrite
    /\ IF Len(f) = 0
       THEN /\ pc' = "done"
            /\ exitCode' = ExitSuccess
            /\ feed' = f
            /\ batch' = <<>>
            /\ outcome' = [i \in Ids |-> "absent"]
            /\ UNCHANGED now
       ELSE LET chronologicalInsights == Reverse(f)
                Keep(i) == IsOldEnough(clock, pubAt[i])
            IN  /\ now' = clock
                /\ feed' = f
                /\ batch' = SelectSeq(chronologicalInsights, Keep)
                /\ outcome' = [i \in Ids |->
                                  IF i \notin Range(f) THEN "absent"
                                  ELSE IF Keep(i) THEN "pending"
                                  ELSE "tooRecent"]
                /\ pc' = "loop"
                /\ UNCHANGED exitCode
    /\ UNCHANGED <<delivered, everFailed, files, chatOfCall, modeUnchanged>>

\* the head of one loop iteration, reading the files config.Cache names;
\* the first delivery call of sendMessage asks getChatId for its chat_id
ModeExamine(composed) ==
    /\ pc = "loop"
    /\ idx <= Len(batch)
    /\ LET insight == batch[idx]
       IN  IF IsInsightProcessed(files[ProcessedIdsFilename(config)], insight)
           THEN /\ outcome' = [outcome EXCEPT ![insight] = "processed"]
                /\ idx' = idx + 1
                /\ UNCHANGED <<pc, rep, attempts, chatOfCall>>
           ELSE IF IsOlderThanCached(files[CacheFilename(config)], pubAt[insight])
           THEN /\ outcome' = [outcome EXCEPT ![insight] = "older"]
                /\ idx' = idx + 1
                /\ UNCHANGED <<pc, rep, attempts, chatOfCall>>
           ELSE /\ pc' = "send"
                /\ rep' = FirstRepresentation(insight, composed)
                /\ attempts' = Append(attempts, insight)
                /\ chatOfCall' = GetChatId(config)
                /\ UNCHANGED <<outcome, idx>>
    /\ response' = "none"
    /\ wrote' = NoWrite
    /\ UNCHANGED <<feed, batch, processedCount, now, delivered, everFailed, sends,
                   slept, fetchStatus, exitCode, files, modeUnchanged>>

\* the delivery call in flight ends with response r: commit to the files
\* config.Cache names, or the text message of the catch block (a new call
\* of getChatId), or the failure of the insight
ModeSend(r) ==
    /\ pc = "send"
    /\ response' = r
    /\ LET insight == batch[idx]
           processedName == ProcessedIdsFilename(config)
           cacheName == CacheFilename(config)
       IN  IF DeliverySucceeded(r)
           THEN /\ files' = [files EXCEPT
                                 ![processedName] =
                                     WriteCache(@, AddProcessedInsight(@, insight,
                                         BackgroundMetadata(insight), clock), TRUE),
                                 ![cacheName] =
                                     WriteCache(@, LatestInsight(insight,
                                         pubAt[insight], clock), TRUE)]
                /\ wrote' = [processed |-> TRUE, cache |-> TRUE, any |-> TRUE]
                /\ processedCount' = processedCount + 1
                /\ delivered' = [delivered EXCEPT
                                    ![insight] = IF @ < 2 THEN @ + 1 ELSE @]
                /\ outcome' = [outcome EXCEPT ![insight] = "delivered"]
                /\ rep' = "none"
                /\ chatOfCall' = "none"
                /\ sends' = <<>>
                /\ slept' = FALSE
                /\ IF HasMoreInsights(processedCount + 1, Len(batch))
                   THEN pc' = "delay" /\ UNCHANGED idx
                   ELSE pc' = "loop" /\ idx' = idx + 1
                /\ UNCHANGED everFailed
           ELSE IF Fallback(rep) # "none"
           THEN /\ rep' = Fallback(rep)
                /\ chatOfCall' = GetChatId(config)
                /\ sends' = Append(sends, [rep |-> rep, response |-> r])
                /\ UNCHANGED <<files, processedCount, delivered, outcome, pc, idx,
                               everFailed, slept, wrote>>
           ELSE /\ outcome' = [outcome EXCEPT ![insight] = "failed"]
                /\ everFailed' = everFailed \cup {insight}
                /\ rep' = "none"
                /\ chatOfCall' = "none"
                /\ sends' = <<>>
                /\ slept' = FALSE
                /\ pc' = "loop"
                /\ idx' = NextIndexAfterFailure(idx, Len(batch))
                /\ UNCHANGED <<files, processedCount, delivered, wrote>>
    /\ UNCHANGED <<feed, batch, now, attempts, fetchStatus, exitCode, modeUnchanged>>

\* between two runs the operator switches TEST_MODE
TestModeNext ==
    \/ \E cfg \in ModeConfigs : EditEnv(cfg)
    \/ \E f \in Feeds : ModeFetch(f)
    \/ ModeExamine(TRUE)
    \/ \E r \in FaultResponses : ModeSend(r)
    \/ Delay
    \/ LoopEnd
    \/ NextRun

SpecTestMode == TestModeInit /\ [][TestModeNext]_vars

(* ------------------------------------------------------------------ *)
(* Runs whose external calls all return (SpecLive)                     *)
(* ------------------------------------------------------------------ *)

\* sendMessage makes one delivery call in its try block and one in its
\* catch block
MaxDeliveryCalls == 2

LiveInit == FaultsInit

\* every delivery call ends, with success or with an error; the writes
\* that follow a success succeed
LiveNext ==
    \/ \E f \in Feeds : Fetch(f)
    \/ \E status \in FetchStatuses : FetchError(status)
    \/ Examine(TRUE)
    \/ \E r \in FaultResponses : Send(r, TRUE, TRUE)
    \/ Delay
    \/ LoopEnd
    \/ NextRun

\* within a run, the loop goes on as long as it can, every awaited delivery
\* call returns and every awaited delay ends; nothing obliges the scheduler
\* to start a run
SpecLive ==
    /\ LiveInit
    /\ [][LiveNext]_vars
    /\ WF_vars(Examine(TRUE))
    /\ WF_vars(\E r \in FaultResponses : Send(r, TRUE, TRUE))
    /\ WF_vars(Delay)
    /\ WF_vars(LoopEnd)

(* ------------------------------------------------------------------ *)
(* The processed-set tracker on its own: direct calls of               *)
(* addProcessedInsight and isInsightProcessed                          *)
(* ------------------------------------------------------------------ *)

\* the n most recent elements of a history, oldest first
Newest(s, n) == [i \in 1..(IF Len(s) < n THEN Len(s) ELSE n) |->
                    s[i + (IF Len(s) < n THEN 0 ELSE Len(s) - n)]]

\* the entries the file holds, and their identifiers, read off the document
DocEntries(file) == IF file.kind = "processed" THEN file.processedIds ELSE <<>>

DocIds(file) == [i \in 1..Len(DocEntries(file)) |-> DocEntries(file)[i].id]

\* the identifiers that count as processed according to the history
Current == Range(Newest(initIds \o added, MAX_PROCESSED_IDS))

\* identifiers the calls have used so far, and the ones the next call may use:
\* identifiers are opaque, so a new one is always the next of TrackerOrder
Introduced == Range(initIds) \cup Range(added)

Callable ==
    Introduced \cup
        (IF Cardinality(Introduced) < Len(TrackerOrder)
         THEN {TrackerOrder[Cardinality(Introduced) + 1]} ELSE {})

\* a processed set written by earlier runs: object entries, no identifier twice
InitDoc(ids) ==
    IF ids = <<>> THEN AbsentFile
    ELSE WriteProcessedIds(
             [i \in 1..Len(ids) |->
                 [fmt |-> "object", id |-> ids[i], processedAt |-> 0,
                  backgroundType |-> "", backgroundValue |-> ""]], 0)

TrackerInit ==
    /\ pubAt = [i \in Ids |-> 1]
    /\ initIds \in {SubSeq(TrackerOrder, 1, k) : k \in 0..MAX_PROCESSED_IDS}
    /\ processedDoc = InitDoc(initIds)
    /\ cacheDoc = AbsentFile
    /\ startDocs = [processed |-> AbsentFile, cache |-> AbsentFile]
    /\ useImageOverlay = FALSE
    /\ config = ProductionConfig
    /\ argInsight = NoInsight
    /\ other = NoOther
    /\ loaded = NotLoaded
    /\ files = NoFiles
    /\ chatOfCall = "none"
    /\ Idle

\* addProcessedInsight(id, metadata), called at time calls + 1
AddCall(id, metadata) ==
    /\ calls < MaxCalls
    /\ id \in Callable
    /\ calls' = calls + 1
    /\ processedDoc' = AddProcessedInsight(processedDoc, id, metadata, calls + 1)
    /\ call' = [op |-> "add", id |-> id, metadata |-> metadata, result |-> FALSE,
                present |-> id \in Range(DocIds(processedDoc)),
                again |-> call.op = "add" /\ call.id = id]
    /\ added' = IF id \in Current THEN added ELSE Append(added, id)
    /\ UNCHANGED initIds
    /\ UNCHANGED <<clock, runVars>>

\* isInsightProcessed(id)
IsProcessedCall(id) ==
    /\ call' = [op |-> "check", id |-> id, metadata |-> NoMetadata,
                result |-> IsInsightProcessed(processedDoc, id),
                present |-> id \in Range(DocIds(processedDoc)),
                again |-> FALSE]
    /\ UNCHANGED <<calls, initIds, added, processedDoc, clock, runVars>>

TrackerNext ==
    \/ \E id \in TrackerIds, metadata \in Metadatas : AddCall(id, metadata)
    \/ \E id \in TrackerIds : IsProcessedCall(id)

SpecTracker == TrackerInit /\ [][TrackerNext]_vars

(* ------------------------------------------------------------------ *)
(* The tracker on a processed set that earlier versions wrote: plain   *)
(* strings next to object entries (SpecMixed)                          *)
(* ------------------------------------------------------------------ *)

\* the formats of an entry: the identifier itself, or { id, processedAt, .. }
Formats == {"string", "object"}

\* a processed set of the given identifiers in the given formats
MixedDoc(ids, fmts) ==
    WriteProcessedIds(
        [i \in 1..Len(ids) |->
            IF fmts[i] = "string"
            THEN [fmt |-> "string", id |-> ids[i]]
            ELSE [fmt |-> "object", id |-> ids[i], processedAt |-> 0,
                  backgroundType |-> "", backgroundValue |-> ""]], 0)

MixedInit ==
    /\ pubAt = [i \in Ids |-> 1]
    /\ initIds \in {SubSeq(TrackerOrder, 1, k) : k \in 1..MAX_PROCESSED_IDS}
    /\ \E fmts \in [1..Len(initIds) -> Formats] :
           processedDoc = MixedDoc(initIds, fmts)
    /\ cacheDoc = AbsentFile
    /\ startDocs = [processed |-> AbsentFile, cache |-> AbsentFile]
    /\ useImageOverlay = FALSE
    /\ config = ProductionConfig
    /\ argInsight = NoInsight
    /\ other = NoOther
    /\ loaded = NotLoaded
    /\ files = NoFiles
    /\ chatOfCall = "none"
    /\ Idle

\* the calls of a run: addProcessedInsight and isInsightProcessed
MixedNext ==
    \/ \E id \in TrackerIds : AddCall(id, NoMetadata)
    \/ \E id \in TrackerIds : IsProcessedCall(id)

SpecMixed == MixedInit /\ [][MixedNext]_vars

(* ------------------------------------------------------------------ *)
(* Properties of the runs (Spec)                                       *)
(* ------------------------------------------------------------------ *)

\* position of an insight in the fetched feed (1 = newest first)
PosInFeed(id) == CHOOSE k \in 1..Len(feed) : feed[k] = id

\* the feed is sorted by publishedAt, newest first, as the request asks
FeedNewestFirst ==
    \A k \in 1..(Len(feed) - 1) : pubAt[feed[k]] >= pubAt[feed[k + 1]]

\* the insights this run has delivered, in the order of delivery
DeliveredThisRun ==
    LET Done(i) == outcome[i] = "delivered" IN SelectSeq(attempts, Done)

\* C1: over any sequence of non-overlapping runs whose cache writes succeed,
\* no insight identifier is successfully delivered more than once.
C1_AtMostOnce == \A i \in Ids : delivered[i] <= 1

\* C2: when the previous run delivered and committed every item of its batch,
\* a run against the same feed with the same eligible items hands nothing to
\* sendMessage and leaves both cache files as it found them.
C2_SecondRunIdle ==
    (/\ pc = "done"
     /\ prev.complete
     /\ feed = prev.feed
     /\ batch = prev.batch)
        => /\ attempts = <<>>
           /\ processedDoc = startDocs.processed
           /\ cacheDoc = startDocs.cache

\* C3: within one run the delivery attempts follow the fetched feed backwards
\* (so a feed sorted newest first is delivered in increasing publication
\* time), and an insight is attempted only when every insight that comes
\* before it in chronological order has been delivered, skipped or failed.
C3_Ordering ==
    /\ \A m, n \in 1..Len(attempts) :
           m < n => PosInFeed(attempts[m]) > PosInFeed(attempts[n])
    /\ (\A k \in 1..(Len(feed) - 1) : pubAt[feed[k]] > pubAt[feed[k + 1]])
           => \A m, n \in 1..Len(attempts) :
                  m < n => pubAt[attempts[m]] < pubAt[attempts[n]]
    /\ \A m \in 1..Len(attempts) : \A k \in 1..Len(feed) :
           PosInFeed(attempts[m]) < k => outcome[feed[k]] # "pending"

C3_Witness ==
    /\ Len(feed) = 3
    /\ pubAt[feed[1]] > pubAt[feed[2]] /\ pubAt[feed[2]] > pubAt[feed[3]]
    /\ attempts = <<feed[3], feed[2], feed[1]>>
    /\ \A i \in Ids : outcome[i] = "delivered"

\* C4: an insight whose delivery succeeds is added to the processed set (and
\* stays in it while it is among the last MAX_PROCESSED_IDS deliveries), an
\* insight whose delivery fails is not in it, and a failure does not keep the
\* loop from examining the rest of the batch.
C4_PartialBatch ==
    /\ \A i \in Ids : outcome[i] = "failed"
           => i \notin Range(DocIds(processedDoc))
    /\ Range(Newest(DeliveredThisRun, MAX_PROCESSED_IDS))
           \subseteq Range(DocIds(processedDoc))
    /\ pc = "done" => \A i \in Ids : outcome[i] # "pending"

C4_Witness ==
    /\ pc = "done"
    /\ Len(batch) = 3
    /\ outcome[batch[1]] = "delivered"
    /\ outcome[batch[2]] = "failed"
    /\ outcome[batch[3]] = "delivered"
    /\ batch[1] \in Range(DocIds(processedDoc))
    /\ batch[3] \in Range(DocIds(processedDoc))
    /\ batch[2] \notin Range(DocIds(processedDoc))

\* C5: an insight whose delivery failed in an earlier run, and which has never
\* been delivered, is not skipped by the timestamp check of a later run (whose
\* feed is sorted newest first): the timestamp cache alone never makes the bot
\* pass over an unprocessed insight.
C5_NoMissedMessages ==
    FeedNewestFirst =>
        \A i \in Ids :
            (i \in everFailed /\ delivered[i] = 0) => outcome[i] # "older"

\* C6: with now taken once before the filter, an insight of the feed is in
\* the batch iff now - publishedAt is at least MINIMUM_AGE_MINUTES (the exact
\* threshold included), and no younger insight is handed to sendMessage.
C6_MinimumAge ==
    /\ \A i \in Range(feed) :
           i \in Range(batch) <=> (now - pubAt[i]) * SlotMinutes >= MINIMUM_AGE_MINUTES
    /\ \A i \in Range(attempts) :
           (now - pubAt[i]) * SlotMinutes >= MINIMUM_AGE_MINUTES

C6_Witness ==
    \E i, j \in Range(feed) :
        /\ (now - pubAt[i]) * SlotMinutes = MINIMUM_AGE_MINUTES
        /\ outcome[i] = "delivered"
        /\ (now - pubAt[j]) * SlotMinutes < MINIMUM_AGE_MINUTES
        /\ outcome[j] = "tooRecent"
        /\ pc = "done"

(* ------------------------------------------------------------------ *)
(* Properties of the tracker (SpecTracker)                             *)
(* ------------------------------------------------------------------ *)

\* C7: starting from an empty processed set, after n distinct identifiers
\* have been added the file holds exactly min(n, MAX_PROCESSED_IDS) entries,
\* the most recently added ones in insertion order, totalCount is that
\* number, and the file never holds more than MAX_PROCESSED_IDS entries.
C7_BoundedGrowth ==
    /\ Len(DocEntries(processedDoc)) <= MAX_PROCESSED_IDS
    /\ initIds = <<>> =>
          /\ DocIds(processedDoc) = Newest(added, MAX_PROCESSED_IDS)
          /\ (processedDoc.kind = "absent") <=> (added = <<>>)
          /\ processedDoc.kind = "processed" =>
                /\ processedDoc.totalCount = Len(DocEntries(processedDoc))
                /\ processedDoc.totalCount =
                       (IF Cardinality(Range(added)) < MAX_PROCESSED_IDS
                        THEN Cardinality(Range(added)) ELSE MAX_PROCESSED_IDS)

C7_Witness ==
    /\ initIds = <<>>
    /\ Len(added) = MAX_PROCESSED_IDS + 5
    /\ Cardinality(Range(added)) = MAX_PROCESSED_IDS + 5
    /\ Len(DocEntries(processedDoc)) = MAX_PROCESSED_IDS
    /\ DocIds(processedDoc) =
           SubSeq(added, Len(added) - MAX_PROCESSED_IDS + 1, Len(added))

\* C8: starting from a processed set without duplicate identifiers, after any
\* sequence of addProcessedInsight calls the file holds at most one entry per
\* identifier, and exactly one for the identifier of the call just made.
C8_NoDuplicateIds ==
    /\ \A i, j \in 1..Len(DocEntries(processedDoc)) :
           i # j => DocEntries(processedDoc)[i].id # DocEntries(processedDoc)[j].id
    /\ call.op = "add" =>
           Cardinality({i \in 1..Len(DocEntries(processedDoc)) :
                            DocEntries(processedDoc)[i].id = call.id}) = 1

C8_Witness ==
    /\ call.op = "add"
    /\ call.again
    /\ Cardinality({i \in 1..Len(DocEntries(processedDoc)) :
                        DocEntries(processedDoc)[i].id = call.id}) = 1

\* C9: addProcessedInsight with an identifier the file holds writes nothing
\* and leaves the whole document as it was, whatever the metadata; with an
\* identifier the file does not hold it appends {id, processedAt, ...metadata}
\* and writes the list cut to its last MAX_PROCESSED_IDS entries.
C9_AddStep ==
    calls' = calls + 1 =>
        LET old == DocEntries(processedDoc)
            record == [fmt |-> "object", id |-> call'.id, processedAt |-> calls',
                       backgroundType  |-> call'.metadata.backgroundType,
                       backgroundValue |-> call'.metadata.backgroundValue]
        IN  IF \E i \in 1..Len(old) : old[i].id = call'.id
            THEN processedDoc' = processedDoc
            ELSE /\ processedDoc'.kind = "processed"
                 /\ processedDoc'.processedIds =
                        Newest(Append(old, record), MAX_PROCESSED_IDS)
                 /\ processedDoc'.lastUpdated = calls'

C9_MarkProcessedIdempotent == [][C9_AddStep]_vars

C9_Witness ==
    /\ call.op = "add"
    /\ call.present
    /\ \E i \in 1..Len(DocEntries(processedDoc)) :
           /\ DocEntries(processedDoc)[i].id = call.id
           /\ DocEntries(processedDoc)[i].backgroundType # call.metadata.backgroundType
           /\ DocEntries(processedDoc)[i].processedAt < calls

\* C10: isInsightProcessed(id) is true iff the file currently holds an entry
\* for id: true for the last MAX_PROCESSED_IDS identifiers added, false for
\* an identifier never added and for an identifier that has been evicted.
C10_IsProcessed ==
    call.op = "check" =>
        /\ call.result <=> call.id \in Range(DocIds(processedDoc))
        /\ call.result <=> call.id \in Current

C10_Witness ==
    /\ call.op = "check"
    /\ call.id \in Range(added)
    /\ call.id \notin Current
    /\ ~call.result

\* C11 (as stated): an old-enough insight is handed to sendMessage iff its
\* identifier is not in the processed set and the checkpoint has no
\* publishedAt or the insight's publishedAt is strictly greater than the
\* checkpoint's; an unprocessed insight published at the checkpoint's
\* instant is not sent.
C11_StrictStep ==
    (pc = "loop" /\ idx <= Len(batch)) =>
        LET insight == batch[idx]
            inSet == insight \in Range(DocIds(processedDoc))
            noTimestamp == cacheDoc.kind # "checkpoint"
        IN  (pc' = "send" /\ attempts' = Append(attempts, insight))
                <=> (~inSet /\ (noTimestamp \/ pubAt[insight] > cacheDoc.publishedAt))

C11_StrictlyNewerThanCheckpoint == [][C11_StrictStep]_vars

\* C11 (amended): an old-enough insight is handed to sendMessage iff its
\* identifier is not in the processed set and the checkpoint has no
\* publishedAt or the insight's publishedAt is greater than or equal to the
\* checkpoint's; an unprocessed insight published at the checkpoint's
\* instant is sent.
C11_EligibilityStep ==
    (pc = "loop" /\ idx <= Len(batch)) =>
        LET insight == batch[idx]
            inSet == insight \in Range(DocIds(processedDoc))
            noTimestamp == cacheDoc.kind # "checkpoint"
        IN  (pc' = "send" /\ attempts' = Append(attempts, insight))
                <=> (~inSet /\ (noTimestamp \/ pubAt[insight] >= cacheDoc.publishedAt))

C11_Eligibility == [][C11_EligibilityStep]_vars

C11_Witness ==
    /\ pc = "send"
    /\ cacheDoc.kind = "checkpoint"
    /\ pubAt[batch[idx]] = cacheDoc.publishedAt
    /\ batch[idx] \notin Range(DocIds(processedDoc))
    /\ batch[idx] # cacheDoc.id

\* C12: once an insight has been delivered, and until the next insight of
\* the batch is examined (indeed until the next commit), the processed-set
\* file holds its identifier, the timestamp cache is { id, publishedAt } of
\* exactly that insight with a sentAt taken during the run, and
\* processedCount has been incremented once per delivery.
C12_Commit ==
    DeliveredThisRun # <<>> =>
        LET last == DeliveredThisRun[Len(DeliveredThisRun)]
        IN  /\ last \in Range(DocIds(processedDoc))
            /\ cacheDoc.kind = "checkpoint"
            /\ cacheDoc.id = last
            /\ cacheDoc.publishedAt = pubAt[last]
            /\ cacheDoc.sentAt \in now..clock
            /\ processedCount = Len(DeliveredThisRun)

C12_Witness ==
    /\ pc = "delay"
    /\ Len(DeliveredThisRun) = 2
    /\ pubAt[DeliveredThisRun[1]] # pubAt[DeliveredThisRun[2]]
    /\ cacheDoc.sentAt # cacheDoc.publishedAt

\* C13: the two cache files change only in the step in which the delivery
\* of an insight succeeds, and then they record that insight; a skipped
\* insight, a failed delivery (a thrown error or an envelope with ok = false)
\* and an empty feed leave both files as they were.
C13_WriteStep ==
    LET filesChange == processedDoc' # processedDoc \/ cacheDoc' # cacheDoc
        insight == batch[idx]
    IN  /\ filesChange =>
               /\ pc = "send"
               /\ response' = "ok"
               /\ outcome'[insight] = "delivered"
               /\ cacheDoc'.kind = "checkpoint"
               /\ cacheDoc'.id = insight
               /\ DocIds(processedDoc')[Len(DocIds(processedDoc'))] = insight
        /\ (pc = "send" /\ response' \in {"network", "non2xx", "notok"})
               => ~filesChange
        /\ (pc = "loop" /\ idx' = idx + 1) => ~filesChange
        /\ (pc = "idle" /\ pc' = "done") => ~filesChange

C13_WrittenOnlyAfterSuccess == [][C13_WriteStep]_vars

C13_Witness ==
    /\ pc = "loop"
    /\ response = "notok"
    /\ outcome[batch[idx - 1]] = "failed"
    /\ DeliveredThisRun # <<>>
    /\ \E i \in Ids : outcome[i] = "older"
    /\ cacheDoc.id = DeliveredThisRun[Len(DeliveredThisRun)]

\* C15: sendMessage ends with the first delivery call that succeeds, so an
\* insight is delivered at most once in a run; an error of a photo call
\* (request error, non-2xx, ok = false) is followed by a call with a simpler
\* representation, the text message, for the same insight; and the insight
\* fails (sendMessage throws to the loop) only in a step in which a text
\* message has been attempted and has failed.
C15_SendStep ==
    LET insight == batch[idx]
        failures == {"network", "non2xx", "notok"}
    IN  /\ \A j, k \in 1..Len(attempts) : attempts[j] = attempts[k] => j = k
        /\ (pc = "send" /\ response' = "ok")
               => /\ pc' # "send"
                  /\ rep' = "none"
                  /\ outcome'[insight] = "delivered"
                  /\ \A k \in 1..Len(sends) : sends[k].response \in failures
        /\ (pc = "send" /\ rep = "photo" /\ response' \in failures)
               => /\ pc' = "send"
                  /\ rep' = "fallbackText"
                  /\ idx' = idx
                  /\ outcome' = outcome
        /\ (pc = "send" /\ outcome'[insight] = "failed")
               => /\ rep \in {"text", "fallbackText"}
                  /\ response' \in failures

C15_DeliveryStateMachine == [][C15_SendStep]_vars

C15_Witness ==
    /\ pc = "send"
    /\ rep = "fallbackText"
    /\ sends = <<[rep |-> "photo", response |-> "non2xx"]>>
    /\ DeliveredThisRun # <<>>

\* C16 (as stated): within a run, after every call of sendMessage, delivered
\* or failed, the delay has elapsed before the next insight of the batch is
\* processed; so the run has slept between any two consecutive calls of
\* sendMessage.
C16_DelayAfterEveryAttempt ==
    /\ (pc = "loop" /\ idx <= Len(batch) /\ Len(attempts) >= 1) => slept
    /\ (pc = "send" /\ Len(attempts) >= 2) => slept

\* C16 (amended): within a run, when the next insight of the batch is
\* processed after a call of sendMessage, the delay has elapsed if that call
\* delivered its insight and has not if it failed; so the run has slept
\* between two consecutive calls of sendMessage exactly when the earlier
\* one delivered.
C16_DelayAfterDelivery ==
    LET n == Len(attempts)
    IN  /\ (pc = "loop" /\ idx <= Len(batch) /\ n >= 1)
               => (slept <=> outcome[attempts[n]] = "delivered")
        /\ (pc = "send" /\ n >= 2)
               => (slept <=> outcome[attempts[n - 1]] = "delivered")

C16_Witness ==
    /\ pc = "send"
    /\ Len(attempts) = 3
    /\ outcome[attempts[1]] = "delivered"
    /\ outcome[attempts[2]] = "failed"
    /\ ~slept

\* C17: over any sequence of runs, one after the other, and for any order
\* of the feed, every write of the timestamp cache stores a publishedAt that
\* is greater than or equal to the one stored before: the stored checkpoint
\* timestamp never decreases.
C17_CheckpointStep ==
    (cacheDoc.kind = "checkpoint" /\ cacheDoc' # cacheDoc) =>
        /\ cacheDoc'.kind = "checkpoint"
        /\ cacheDoc'.publishedAt >= cacheDoc.publishedAt

C17_MonotonicCheckpoint == [][C17_CheckpointStep]_vars

C17_Witness ==
    /\ ~FeedNewestFirst
    /\ Len(DeliveredThisRun) >= 2
    /\ runs >= 1
    /\ \E i \in Ids : outcome[i] = "older" /\ pubAt[i] < cacheDoc.publishedAt
                         /\ i \notin Range(DocIds(processedDoc))

\* what the loop has done with an insight it is through with
Settled == {"processed", "older", "failed", "delivered"}

C23_SerialStep ==
    \* exactly while sendMessage is awaited, one delivery call is in flight,
    \* and it is a call for the insight of the current iteration
    /\ (rep' # "none") <=> (pc' = "send")
    /\ pc' = "send" => /\ idx' <= Len(batch')
                       /\ attempts'[Len(attempts')] = batch'[idx']
                       /\ outcome'[batch'[idx']] = "pending"
    \* the checks of an insight start when every insight before it is settled
    \* and, if the one before it was delivered, both writes of it are done
    /\ (pc = "loop" /\ idx <= Len(batch) /\ (pc' = "send" \/ idx' # idx))
       => /\ rep = "none"
          /\ sends = <<>>
          /\ \A k \in 1..(idx - 1) : outcome[batch[k]] \in Settled
          /\ \A k \in idx..Len(batch) : outcome[batch[k]] = "pending"
          /\ (idx > 1 /\ outcome[batch[idx - 1]] = "delivered")
             => /\ DocIds(processedDoc)[Len(DocIds(processedDoc))] = batch[idx - 1]
                /\ cacheDoc.kind = "checkpoint"
                /\ cacheDoc.id = batch[idx - 1]
    \* a write of the processed set is the read-modify-write of the insight
    \* just delivered, on the file as the previous write left it
    /\ processedDoc' # processedDoc
       => /\ pc = "send"
          /\ outcome'[batch[idx]] = "delivered"
          /\ processedDoc' = AddProcessedInsight(processedDoc, batch[idx],
                                 BackgroundMetadata(batch[idx]), clock)

\* C23: within one run at most one delivery call is in flight, the checks
\* of an insight start only after the insight before it has been skipped,
\* has failed or has been committed with both writes, and every write of
\* the processed set is one uninterrupted read-modify-write.
C23_StrictSerialization == [][C23_SerialStep]_vars

\* the delivery call of the third insight is in flight after the first
\* insight failed and the second was committed
C23_Witness ==
    /\ pc = "send"
    /\ idx = 3
    /\ outcome[batch[1]] = "failed"
    /\ outcome[batch[2]] = "delivered"
    /\ cacheDoc.id = batch[2]

\* C30: starting from empty state and without write failures, once a commit
\* has been made the identifier of the checkpoint document is in the
\* persisted processed set and is its last (newest) entry.
C30_CheckpointIsNewestProcessed ==
    cacheDoc # AbsentFile
    => /\ cacheDoc.kind = "checkpoint"
       /\ processedDoc.kind = "processed"
       /\ Len(DocIds(processedDoc)) >= 1
       /\ Len(DocIds(processedDoc)) <= MAX_PROCESSED_IDS
       /\ cacheDoc.id \in Range(DocIds(processedDoc))
       /\ DocIds(processedDoc)[Len(DocIds(processedDoc))] = cacheDoc.id

\* the third commit of a run has pushed the first identifier out of the
\* full processed set
C30_Witness ==
    /\ Len(DeliveredThisRun) = 3
    /\ Len(DocIds(processedDoc)) = MAX_PROCESSED_IDS
    /\ DeliveredThisRun[1] \notin Range(DocIds(processedDoc))
    /\ cacheDoc.id = DeliveredThisRun[3]

\* C27: the run never sleeps after the last insight of its batch, whatever
\* was skipped, failed or delivered before it.
C27_NoTrailingDelay == ~(pc = "delay" /\ idx = Len(batch))

\* the representations that are delivered by sendTextMessage
TextCalls == {"text", "fallbackText"}

\* the delivery calls of the running sendMessage, the one in flight included
CallsOfSendMessage ==
    [k \in 1..Len(sends) |-> sends[k].rep] \o (IF rep = "none" THEN <<>> ELSE <<rep>>)

\* C28: for one insight in one run sendMessage makes the text delivery call
\* at most once, also when the text message was its first choice and failed.
C28_TextAtMostOnce ==
    Cardinality({k \in 1..Len(CallsOfSendMessage) :
                    CallsOfSendMessage[k] \in TextCalls}) <= 1

(* ------------------------------------------------------------------ *)
(* Properties of the runs that find broken files (SpecLoad)            *)
(* ------------------------------------------------------------------ *)

\* every read of the file gives what it gives for a missing file
ReadsAsMissing(file) ==
    /\ ReadProcessedIds(file) = <<>>
    /\ \A i \in Ids :
           /\ IsInsightProcessed(file, i) = IsInsightProcessed(AbsentFile, i)
           /\ AddProcessedInsight(file, i, BackgroundMetadata(i), clock)
                  = AddProcessedInsight(AbsentFile, i, BackgroundMetadata(i), clock)
    /\ \A p \in PubSlots :
           IsOlderThanCached(file, p) = IsOlderThanCached(AbsentFile, p)

\* C18 (as stated): readCache and readProcessedIds never throw, and for a
\* missing file, an unreadable file, a file that is not JSON and JSON that
\* is not an object readCache yields the empty object and readProcessedIds
\* the empty list.
C18_LoadYieldsEmptyObject ==
    \A file \in {processedDoc, cacheDoc} :
        /\ ReadCache(file).kind # "thrown"
        /\ file \in BrokenFiles =>
               /\ ReadCache(file) = EmptyObject
               /\ ReadProcessedIds(file) = <<>>

\* C18 (amended): readCache and readProcessedIds never throw; readCache
\* yields the empty object for a missing file, an unreadable file and a file
\* that is not JSON, and the parsed value itself for JSON that is not an
\* object; in each of these cases readProcessedIds yields the empty list,
\* every read the run makes gives what it gives for a missing file, and the
\* run skips nothing before its first delivery, which leaves a processed
\* set holding that insight alone.
C18_LoadNeverFails ==
    /\ \A file \in {processedDoc, cacheDoc} :
           /\ ReadCache(file).kind # "thrown"
           /\ file \in ({AbsentFile} \cup UnparsableFiles) => ReadCache(file) = EmptyObject
           /\ file \in NonObjectFiles => ReadCache(file) = file
           /\ file \in BrokenFiles => ReadsAsMissing(file)
    /\ (startDocs.processed \in BrokenFiles /\ DeliveredThisRun = <<>>)
           => \A i \in Ids : outcome[i] # "processed"
    /\ (startDocs.cache \in BrokenFiles /\ DeliveredThisRun = <<>>)
           => \A i \in Ids : outcome[i] # "older"
    /\ (startDocs.processed \in BrokenFiles /\ Len(DeliveredThisRun) = 1)
           => DocIds(processedDoc) = DeliveredThisRun

C18_Witness ==
    /\ startDocs.processed = [kind |-> "malformed"]
    /\ startDocs.cache = [kind |-> "null"]
    /\ pc = "done"
    /\ Len(DeliveredThisRun) = 2
    /\ \E i \in Ids : outcome[i] = "failed"

(* ------------------------------------------------------------------ *)
(* Properties of the runs with failing fetches and writes (SpecFaults) *)
(* ------------------------------------------------------------------ *)

\* C19: a write of either file that fails during a commit raises nothing:
\* the insight counts as delivered, processedCount grows, the loop goes on
\* to the delay or to the next insight, and a run whose fetch succeeded ends
\* with exit code 0; the file whose write failed is left as it was, so an
\* insight whose processed-set write failed is not recorded (and a later
\* run may deliver it again), and the other file is written as usual.
C19_CommitStep ==
    LET insight == batch[idx]
    IN  /\ (pc = "send" /\ response' = "ok") =>
               /\ outcome'[insight] = "delivered"
               /\ processedCount' = processedCount + 1
               /\ pc' \in {"delay", "loop"}
               /\ pc' = "delay" => idx' = idx
               /\ pc' = "loop" => idx' = idx + 1
               /\ wrote'.any
               /\ IF wrote'.processed
                  THEN insight \in Range(DocIds(processedDoc'))
                  ELSE /\ processedDoc' = processedDoc
                       /\ insight \notin Range(DocIds(processedDoc'))
               /\ IF wrote'.cache
                  THEN /\ cacheDoc'.kind = "checkpoint"
                       /\ cacheDoc'.id = insight
                  ELSE cacheDoc' = cacheDoc
        /\ (pc = "loop" /\ pc' = "done") => exitCode' = 0

C22_EndStep ==
    (pc # "done" /\ pc' = "done" /\ fetchStatus' = "ok")
    => /\ exitCode' = 0
       /\ feed' = <<>> => /\ pc = "idle"
                          /\ attempts' = <<>>
                          /\ rep' = "none"
                          /\ delivered' = delivered
                          /\ ~wrote'.any
                          /\ processedDoc' = processedDoc
                          /\ cacheDoc' = cacheDoc

\* C22: a run whose fetch succeeded ends with exit code 0 whatever its loop
\* did: with an empty feed (then no delivery call is made and neither file
\* is written), with nothing new in the feed, and with every delivery of the
\* batch failed.
C22_NormalCompletion == [][C22_EndStep]_vars

\* a run of two insights whose deliveries both failed has ended with code 0
C22_Witness ==
    /\ pc = "done"
    /\ exitCode = 0
    /\ fetchStatus = "ok"
    /\ Len(batch) = 2
    /\ Len(attempts) = 2
    /\ \A k \in 1..Len(batch) : outcome[batch[k]] = "failed"

\* C20: when the fetch of the feed throws or answers with a status that is
\* not 2xx, the run is over at once with a non-zero exit code: sendMessage
\* has not been called for any insight and both files are as the run found
\* them.
C20_FetchErrorIsFatal ==
    fetchStatus \in {"network", "non2xx"} =>
        /\ pc = "done"
        /\ exitCode # 0
        /\ attempts = <<>>
        /\ sends = <<>>
        /\ response = "none"
        /\ \A i \in Ids : outcome[i] = "absent"
        /\ processedDoc = startDocs.processed
        /\ cacheDoc = startDocs.cache

C20_Witness ==
    /\ fetchStatus = "non2xx"
    /\ runs = 1
    /\ exitCode = 1
    /\ processedDoc.kind = "processed"
    /\ cacheDoc.kind = "checkpoint"

(* ------------------------------------------------------------------ *)
(* Properties of the runs under every configuration (SpecConfig)       *)
(* ------------------------------------------------------------------ *)

C21_ProcessStep ==
    (pc = "idle" /\ pc' # "idle"
        /\ (\/ ~config.token
            \/ config.testMode /\ ~config.testChatId
            \/ ~config.testMode /\ ~config.chatId))
    => /\ pc' = "done"
       /\ exitCode' = ExitFailure
       /\ fetchStatus' = "none"
       /\ feed' = <<>>
       /\ rep' = "none"
       /\ attempts' = <<>>
       /\ delivered' = delivered
       /\ processedDoc' = processedDoc
       /\ cacheDoc' = cacheDoc

\* C21: when the token is missing, or the chat id of the active mode (the
\* test chat id in test mode, the production chat id otherwise) is missing,
\* the process ends with a non-zero exit code without fetching the feed,
\* without a delivery call and with both state files as it found them
C21_ConfigurationErrorIsFatal == [][C21_ProcessStep]_vars

\* a process that ended on the missing test chat id although the production
\* chat id is set, after an earlier run had written both files
C21_Witness ==
    /\ pc = "done"
    /\ exitCode = ExitFailure
    /\ fetchStatus = "none"
    /\ config.token /\ config.testMode /\ ~config.testChatId /\ config.chatId
    /\ processedDoc # AbsentFile
    /\ cacheDoc # AbsentFile

(* ------------------------------------------------------------------ *)
(* Properties of sendMessage on its own (SpecMessage)                  *)
(* ------------------------------------------------------------------ *)

\* sendMessage has made no delivery call but calls of sendTextMessage
OnlyTextCalls == \A k \in 1..Len(CallsOfSendMessage) : CallsOfSendMessage[k] \in TextCalls

NothingToShow(insight) ==
    IF insight.backgroundType = "image"
    THEN /\ ~(insight.visualizationType = "graphics" /\ IsValidUrl(insight.visualizationValue))
         /\ ~IsValidUrl(insight.backgroundValue)
    ELSE IF insight.backgroundType = "color"
    THEN ~IsValidUrl(insight.visualizationValue)
    ELSE ~IsValidUrl(insight.backgroundValue)

DeliveredByBoth(i) == outcome[i] = "delivered" /\ i \in Range(other.delivered)

\* C24: two overlapping processes can both deliver the same insight, and
\* when they do (no identifier being evicted) it is because each of them
\* made its checks of the insight before the other committed it: neither
\* handed it to sendMessage after the other's commit.
C24_DeliveredTwiceOnlyByRace ==
    \A i \in Ids :
        DeliveredByBoth(i) => /\ i \notin other.sentCommitted
                              /\ i \notin other.committedUnseen

\* both processes are over and each has delivered the same insight
C24_Witness ==
    /\ pc = "done"
    /\ other.pc = "done"
    /\ \E i \in Ids : /\ DeliveredByBoth(i)
                       /\ delivered[i] = 2
                       /\ Len(SelectSeq(DocIds(processedDoc), LAMBDA x : x = i)) = 1

(* ------------------------------------------------------------------ *)
(* Properties of the run next to the load-once run (SpecReload)        *)
(* ------------------------------------------------------------------ *)

\* C29: without write failures and without a second process, the run that
\* reads the two files afresh for every insight delivers the same insights
\* in the same order as the run that loads them once and keeps them in
\* memory, and when the runs are over their files are the same, for every
\* feed, repeated identifiers and any order of publication included.
C29_SameAsLoadOnce ==
    /\ loaded.reread = loaded.deliveries
    /\ pc = "done" => /\ loaded.processedDoc = processedDoc
                      /\ loaded.cacheDoc = cacheDoc

\* the second run is over: its feed named one insight twice, the insight
\* was delivered once, and an insight of the first run was delivered again
\* once three deliveries had pushed it out of the processed set
C29_Witness ==
    /\ pc = "done"
    /\ runs = 1
    /\ Len(batch) = 3
    /\ batch[1] = batch[3]
    /\ loaded.reread = <<batch[1], batch[2]>>
    /\ delivered[batch[2]] = 2
    /\ Len(DocIds(processedDoc)) = MAX_PROCESSED_IDS

(* ------------------------------------------------------------------ *)
(* Properties of the tracker on a mixed processed set (SpecMixed)      *)
(* ------------------------------------------------------------------ *)

\* the entries of the file that are plain strings
StringIds == {DocEntries(processedDoc)[i].id :
                 i \in {j \in 1..Len(DocEntries(processedDoc)) :
                            DocEntries(processedDoc)[j].fmt = "string"}}

C34_CallStep ==
    LET old == DocEntries(processedDoc)
        held == \E i \in 1..Len(old) : old[i].id = call'.id
    IN  \* isInsightProcessed answers by the identifier, whatever the format
        /\ call'.op = "check" => (call'.result <=> held)
        \* addProcessedInsight writes nothing for an identifier the file
        \* holds in either format; else it appends an object entry and cuts
        \* the list, strings and objects alike, to its last M entries
        /\ calls' = calls + 1
           => IF held
              THEN processedDoc' = processedDoc
              ELSE /\ Len(DocEntries(processedDoc')) <= MAX_PROCESSED_IDS
                   /\ DocEntries(processedDoc') =
                          Newest(Append(old,
                                        [fmt |-> "object", id |-> call'.id,
                                         processedAt |-> calls',
                                         backgroundType |-> "",
                                         backgroundValue |-> ""]),
                                 MAX_PROCESSED_IDS)

\* C34: an identifier stored as a plain string is recognised by
\* isInsightProcessed like an object entry, addProcessedInsight adds no
\* second entry for it, and entries of both formats count toward
\* MAX_PROCESSED_IDS and leave the file oldest first.
C34_MixedFormats == [][C34_CallStep]_vars

\* a string entry has just been found by isInsightProcessed after the add
\* of a new identifier pushed the entry in front of it out of the full file
C34_Witness ==
    /\ call.op = "check"
    /\ call.result
    /\ call.id \in StringIds
    /\ call.id = initIds[Len(initIds)]
    /\ Len(added) = 1
    /\ Len(DocEntries(processedDoc)) = MAX_PROCESSED_IDS
    /\ DocEntries(processedDoc)[1].fmt = "string"
    /\ DocEntries(processedDoc)[MAX_PROCESSED_IDS].fmt = "object"
    /\ initIds[1] \notin Range(DocIds(processedDoc))

(* ------------------------------------------------------------------ *)
(* Properties of the runs in the two modes (SpecTestMode)              *)
(* ------------------------------------------------------------------ *)

ProductionFiles == {"latest_insight.cache.json", "processed_insights.cache.json"}

TestFiles == {"test_latest_insight.cache.json", "test_processed_insights.cache.json"}

C33_ModeStep ==
    \* every delivery call in flight is addressed to the chat of the mode
    /\ (pc' = "send") <=> (chatOfCall' # "none")
    /\ pc' = "send" => chatOfCall' = IF config'.testMode
                                      THEN "TELEGRAM_TEST_CHAT_ID"
                                      ELSE "TELEGRAM_CHAT_ID"
    \* a run changes no file of the other mode, and a commit writes both
    \* files of its own mode for the insight delivered
    /\ \A name \in FileNames :
           files'[name] # files[name]
           => /\ name \in (IF config.testMode THEN TestFiles ELSE ProductionFiles)
              /\ pc = "send"
    /\ (\E i \in Ids : delivered'[i] # delivered[i])
       => \A name \in (IF config.testMode THEN TestFiles ELSE ProductionFiles) :
              /\ files'[name] # files[name]
              /\ files'[name].kind \in {"processed", "checkpoint"}

\* C33: in a run with TEST_MODE enabled every delivery call is addressed to
\* the test chat id and only the test_ files are written, so the production
\* processed set and checkpoint stay as they are; in production mode every
\* delivery call is addressed to the production chat id and the test_ files
\* stay as they are.
C33_TestModeIsolation == [][C33_ModeStep]_vars

\* a test-mode run delivers an insight to the test chat once more although
\* the production run before it had delivered it: the production files hold
\* it, the test_ files are only now being written
C33_Witness ==
    /\ runs = 1
    /\ config.testMode
    /\ pc = "done"
    /\ \E i \in Ids :
           /\ delivered[i] = 2
           /\ outcome[i] = "delivered"
           /\ IsInsightProcessed(files["processed_insights.cache.json"], i)
           /\ IsInsightProcessed(files["test_processed_insights.cache.json"], i)
           /\ files["latest_insight.cache.json"].id = i
    /\ Len(DocIds(files["processed_insights.cache.json"])) = 1
    /\ Len(DocIds(files["test_processed_insights.cache.json"])) = 1

(* ------------------------------------------------------------------ *)
(* Properties of the overlay program (SpecOverlay)                     *)
(* ------------------------------------------------------------------ *)

\* createImageWithTextOverlay throws in this step
ComposeFails ==
    /\ pc = "send"
    /\ rep = "compose"
    /\ sends' = Append(sends, [rep |-> "compose", response |-> "error"])

\* sendMessage is in its catch block because the image could not be drawn
AfterComposeFailure ==
    /\ pc = "send"
    /\ rep = "fallbackText"
    /\ \E k \in 1..Len(sends) : sends[k] = [rep |-> "compose", response |-> "error"]

\* C14 (as stated): with USE_IMAGE_OVERLAY set, when drawing the overlay
\* image fails for an insight that has a background, sendMessage next sends
\* the background as a photo by reference.
C14_PhotoByReferenceStep ==
    (ComposeFails /\ useImageOverlay /\ Background(batch[idx]).backgroundValue # "")
        => (pc' = "send" /\ rep' = "photo")

C14_FallbackToPhotoByReference == [][C14_PhotoByReferenceStep]_vars

\* C14 (amended): with USE_IMAGE_OVERLAY set, when drawing the overlay image
\* fails for an insight that has a background, sendMessage next sends the
\* text message, nothing being written in between; the insight is recorded
\* (the timestamp cache becomes its { id, publishedAt }) if that text
\* message is delivered, and otherwise it fails and nothing is written.
C14_FallbackStep ==
    LET insight == batch[idx]
    IN  /\ (ComposeFails /\ useImageOverlay /\ Background(insight).backgroundValue # "")
               => /\ pc' = "send"
                  /\ rep' = "fallbackText"
                  /\ cacheDoc' = cacheDoc
                  /\ outcome' = outcome
        /\ AfterComposeFailure
               => IF response' = "ok"
                  THEN /\ outcome'[insight] = "delivered"
                       /\ cacheDoc'.kind = "checkpoint"
                       /\ cacheDoc'.id = insight
                       /\ cacheDoc'.publishedAt = pubAt[insight]
                  ELSE /\ outcome'[insight] = "failed"
                       /\ cacheDoc' = cacheDoc

C14_FallbackToText == [][C14_FallbackStep]_vars

C14_Witness ==
    /\ AfterComposeFailure
    /\ useImageOverlay
    /\ Background(batch[idx]).backgroundType = "image"
    /\ cacheDoc.kind = "checkpoint"

\* C26: with the image overlay disabled, the first delivery call for an
\* insight that has a background image is the photo of that URL, and for an
\* insight without a background it is the text message.
C26_PhotoWhenOverlayDisabled ==
    (~useImageOverlay /\ pc = "send" /\ sends = <<>>)
    => /\ (Background(batch[idx]).backgroundType = "image"
              /\ IsValidUrl(Background(batch[idx]).backgroundValue))
          => rep = "photo"
       /\ Background(batch[idx]).backgroundValue = "" => rep = "text"

C32_DeliveryStep ==
    /\ \A i \in Ids :
           delivered'[i] # delivered[i]
           => /\ delivered[i] = 0
              /\ delivered'[i] = 1
              /\ cacheDoc.kind = "checkpoint" => pubAt[i] > cacheDoc.publishedAt
              /\ \A j \in Ids : delivered[j] > 0 => pubAt[j] < pubAt[i]
              /\ cacheDoc'.kind = "checkpoint"
              /\ cacheDoc'.id = i
              /\ cacheDoc'.publishedAt = pubAt[i]
    /\ cacheDoc' # cacheDoc => \E i \in Ids : delivered'[i] # delivered[i]

\* C32: in the timestamp-only program an insight is delivered only when no
\* checkpoint exists or its publication time is strictly greater than the
\* checkpoint's, so over the runs the publication times of the delivered
\* insights increase strictly and no insight is delivered twice.
C32_StrictlyIncreasingDeliveries == [][C32_DeliveryStep]_vars

\* the second run has delivered a newer insight after the first run
\* delivered an older one, and has passed over the insight published at
\* the checkpoint's instant
C32_Witness ==
    /\ runs = 1
    /\ pc = "done"
    /\ Len(batch) = 3
    /\ delivered[batch[1]] = 1 /\ outcome[batch[1]] = "older"
    /\ delivered[batch[2]] = 0 /\ outcome[batch[2]] = "older"
    /\ delivered[batch[3]] = 1 /\ outcome[batch[3]] = "delivered"
    /\ pubAt[batch[1]] = pubAt[batch[2]]
    /\ pubAt[batch[1]] < pubAt[batch[3]]

(* ------------------------------------------------------------------ *)
(* Properties of the runs whose calls return (SpecLive)                *)
(* ------------------------------------------------------------------ *)

InRun == pc \in {"loop", "send", "delay"}

NoRepeats(seq) == \A j, k \in 1..Len(seq) : seq[j] = seq[k] => j = k

C31_RunStep ==
    \* the loop goes through the batch one position at a time, forwards
    /\ InRun => idx' \in {idx, idx + 1}
    \* an insight is looked at while it is pending, and what the run found
    \* for it is never revised within the run
    /\ (pc = "loop" /\ pc' = "send") => outcome[batch[idx]] = "pending"
    /\ \A i \in Ids :
           (InRun /\ outcome[i] # "pending") => outcome'[i] = outcome[i]
    /\ \A i \in Ids :
           (outcome[i] = "pending" /\ outcome'[i] # "pending")
           => /\ idx <= Len(batch)
              /\ i = batch[idx]
              /\ idx' = idx + 1 \/ pc' = "delay"

C31_RunState ==
    \* no insight is handed to sendMessage twice in a run, and sendMessage
    \* makes at most MaxDeliveryCalls delivery calls for it
    /\ NoRepeats(attempts)
    /\ Len(attempts) <= Len(batch)
    /\ Len(CallsOfSendMessage) <= MaxDeliveryCalls
    \* at the end of a run every fetched insight has been looked at: by the
    \* age filter alone if it is too recent, else by the loop
    /\ (pc = "done" /\ ~FetchFails(fetchStatus))
       => /\ idx = Len(batch) + 1
          /\ \A i \in Range(feed) : outcome[i] \in Settled \cup {"tooRecent"}
          /\ \A k \in 1..Len(attempts) :
                 outcome[attempts[k]] \in {"delivered", "failed"}

\* C31: provided every delivery call and every delay returns, a run that has
\* fetched its feed terminates; each fetched insight is examined exactly
\* once, and the number of delivery calls made for one insight is at most
\* MaxDeliveryCalls.
C31_Termination ==
    /\ [][C31_RunStep]_vars
    /\ []C31_RunState
    /\ (InRun ~> pc = "done")

\* a run over three insights has ended after one insight failed with both
\* of its delivery calls and the two others were delivered
C31_Witness ==
    /\ pc = "done"
    /\ Len(batch) = 3
    /\ idx = 4
    /\ Len(attempts) = 3
    /\ outcome[batch[1]] = "failed"
    /\ outcome[batch[2]] = "delivered"
    /\ outcome[batch[3]] = "delivered"

====
